---------------------------- MODULE Spec2Model ----------------------------
(***************************************************************************)
(* Smart-Navigation-Filter: the navigation graph engine.                   *)
(*                                                                         *)
(* The module models src/src/pathfinding.js (dijkstra, findNearestExit,    *)
(* generateDirections), generateVoiceDirections of src/src/MapView3D.jsx   *)
(* and the building graph of src/src/data/buildingData.js.                 *)
(*                                                                         *)
(* Numbers.  The source computes with JavaScript doubles in metres.  The   *)
(* model computes with integers in centimetres: a coordinate c of the      *)
(* source is the integer 100 * c, and an edge weight is the integer square *)
(* root of dx^2 + dy^2.  For the synthetic graphs below every edge is      *)
(* axis-parallel or the hypotenuse of a 3-4-5 triangle, so the weights and *)
(* every sum of them are whole metres: the doubles of the source hold      *)
(* exactly the same values.  For the shipped graph the axis-parallel edges *)
(* are exact to the centimetre grid and the oblique ones are cut to the    *)
(* centimetre.                                                             *)
(*                                                                         *)
(* JavaScript values.  null and the empty string are both falsy in the     *)
(* tests `!minNode` and `while (current)`; both are the empty string       *)
(* NullId here, and no node id is empty.  A JavaScript object used as a    *)
(* map is a record [keys, val]: keys is the insertion order that `for in`  *)
(* enumerates (the ids are not integer-like strings), val the mapping.     *)
(***************************************************************************)
EXTENDS Integers, Sequences, FiniteSets, TLC

VARIABLES
  nodes,           \* the node list handed to the core
  edges,           \* the edge list handed to the core
  wheelchairMode,  \* the accessibility flag of the query
  blockedEdges,    \* the blocked-edge list of the query
  op,              \* the last core operation invoked: "none", "dijkstra", "findNearestExit",
                   \* "generateDirections", "generateVoiceDirections"
  startId,         \* its startId argument
  endId,           \* its endId argument (NullId when the operation takes none)
  path,            \* its path argument (empty when the operation takes none)
  result,          \* what it returned
  loop,            \* dist, prev and visited of a call of dijkstra that is in its
                   \* while loop (op = "loop"), or that has left it
  component,       \* the mounted map component: "MapView", "MapView3D" or "none"
  mode,            \* its mode prop: "navigate" or "view"
  selectedStart,   \* its state selectedStart (NullId for null)
  selectedEnd,     \* its state selectedEnd (NullId for null)
  currentPath,     \* its state currentPath (Null or [ids |-> a list of ids])
  pathInfo,        \* its state pathInfo (Null or a record)
  directions,      \* its state directions
  currentStep,     \* the state currentStep of MapView3D
  emergencyMode,   \* its state emergencyMode
  vibrationEnabled,\* the state vibrationEnabled of MapView3D
  effectDue,       \* a dependency of the compute-path effect changed in the last
                   \* render and the effect has not run yet
  timers,          \* the callbacks handed to setTimeout that have not run yet, in
                   \* the order of the calls
  event,           \* the handler or callback that ran last, and what it spoke or
                   \* vibrated
  currentPage,     \* the state currentPage of App
  currentUser,     \* its state currentUser (NullId for null)
  userProfile,     \* its state userProfile (Null or a profile)
  authState,       \* what onAuthStateChanged delivered last: "unknown" before
                   \* the first delivery, then "in" or "out"
  pending          \* the asynchronous operations that are awaited

\* the state of the map component (with wheelchairMode and blockedEdges)
mapVars == << component, mode, selectedStart, selectedEnd, currentPath, pathInfo,
              directions, currentStep, emergencyMode, vibrationEnabled, effectDue,
              timers, event >>

\* the state of App
appVars == << currentPage, currentUser, userProfile, authState, pending >>

\* the arguments, the position and the result of a call of the core
callVars == << op, startId, endId, path, result, loop >>

\* the state beyond a call of dijkstra
beyondLoop == << mapVars, appVars >>

\* the state beyond the arguments and the result of a core operation
beyondCall == << loop, beyondLoop >>

vars == << nodes, edges, wheelchairMode, blockedEdges, op, startId, endId, path, result,
           beyondCall >>

-----------------------------------------------------------------------------
(* Bounds of the synthetic inputs.                                         *)

\* number of nodes of the synthetic node list (a prefix of SampleNodes)
MaxNodes == 5
\* largest number of entries of a synthetic blockedEdges list
MaxBlocked == 1

-----------------------------------------------------------------------------
(* JavaScript values.                                                      *)

\* null / undefined where a node id is expected
NullId == ""
\* Infinity: larger than every finite distance of the model
Infinity == 1000000000
\* undefined where a number is expected: outside every distance
Undefined == 0 - 1
\* the null a query returns
Null == [null |-> TRUE]

-----------------------------------------------------------------------------
(* Building data (coordinates in centimetres).                             *)

NODES ==
  << [id |-> "NODE_EXIT_A", x |-> 2600, y |-> 465, type |-> "exit", accessible |-> TRUE, label |-> "Exit A"],
     [id |-> "NODE_EXIT_B", x |-> 1800, y |-> -2000, type |-> "exit", accessible |-> TRUE, label |-> "Exit B"],
     [id |-> "NODE_EXIT_C", x |-> -1000, y |-> 2000, type |-> "exit", accessible |-> TRUE, label |-> "Exit C"],
     [id |-> "NODE_ELEVATOR", x |-> 1900, y |-> -1250, type |-> "elevator", accessible |-> TRUE, label |-> "Elevator"],
     [id |-> "NODE_STAIRS_1", x |-> -2300, y |-> 1575, type |-> "stairs", accessible |-> FALSE, label |-> "Stairs 1"],
     [id |-> "NODE_STAIRS_2", x |-> 1550, y |-> -1175, type |-> "stairs", accessible |-> FALSE, label |-> "Stairs 2"],
     [id |-> "NODE_REFUGE_1", x |-> -1700, y |-> 1700, type |-> "refuge", accessible |-> TRUE, label |-> "Refuge 1"],
     [id |-> "NODE_REFUGE_2", x |-> 1550, y |-> -1700, type |-> "refuge", accessible |-> TRUE, label |-> "Refuge 2"],
     [id |-> "NODE_RAMP", x |-> 1600, y |-> -1600, type |-> "ramp", accessible |-> TRUE, label |-> "Ramp"],
     [id |-> "NODE_NC_W", x |-> -1800, y |-> 1000, type |-> "intersection", accessible |-> TRUE],
     [id |-> "NODE_NC_1", x |-> -1400, y |-> 1000, type |-> "intersection", accessible |-> TRUE],
     [id |-> "NODE_NC_NW", x |-> -1000, y |-> 1000, type |-> "intersection", accessible |-> TRUE],
     [id |-> "NODE_NC_2", x |-> -500, y |-> 1000, type |-> "intersection", accessible |-> TRUE],
     [id |-> "NODE_NC_C", x |-> -200, y |-> 1000, type |-> "intersection", accessible |-> TRUE],
     [id |-> "NODE_NC_3", x |-> 600, y |-> 1000, type |-> "intersection", accessible |-> TRUE],
     [id |-> "NODE_NC_E", x |-> 1400, y |-> 1000, type |-> "intersection", accessible |-> TRUE],
     [id |-> "NODE_SC_W", x |-> -1800, y |-> -800, type |-> "intersection", accessible |-> TRUE],
     [id |-> "NODE_SC_1", x |-> -1200, y |-> -800, type |-> "intersection", accessible |-> TRUE],
     [id |-> "NODE_SC_2", x |-> -700, y |-> -800, type |-> "intersection", accessible |-> TRUE],
     [id |-> "NODE_SC_C", x |-> -200, y |-> -800, type |-> "intersection", accessible |-> TRUE],
     [id |-> "NODE_SC_3", x |-> 500, y |-> -800, type |-> "intersection", accessible |-> TRUE],
     [id |-> "NODE_SC_4", x |-> 600, y |-> -800, type |-> "intersection", accessible |-> TRUE],
     [id |-> "NODE_SC_E", x |-> 1400, y |-> -800, type |-> "intersection", accessible |-> TRUE],
     [id |-> "NODE_SC_SE", x |-> 1800, y |-> -800, type |-> "intersection", accessible |-> TRUE],
     [id |-> "NODE_WB_1", x |-> -1800, y |-> 400, type |-> "intersection", accessible |-> TRUE],
     [id |-> "NODE_WB_2", x |-> -1800, y |-> 0, type |-> "intersection", accessible |-> TRUE],
     [id |-> "NODE_EW_MID", x |-> 1400, y |-> 465, type |-> "intersection", accessible |-> TRUE],
     [id |-> "NODE_NW_MID", x |-> -1000, y |-> 1500, type |-> "intersection", accessible |-> TRUE],
     [id |-> "NODE_SE_MID", x |-> 1800, y |-> -1400, type |-> "intersection", accessible |-> TRUE],
     [id |-> "NODE_DEAD_1", x |-> -2400, y |-> -800, type |-> "intersection", accessible |-> TRUE],
     [id |-> "NODE_DEAD_2", x |-> -2200, y |-> -1250, type |-> "intersection", accessible |-> TRUE],
     [id |-> "NODE_DOOR_STAIRS1", x |-> -2000, y |-> 1150, type |-> "door", accessible |-> TRUE],
     [id |-> "NODE_DOOR_REFUGE1", x |-> -1400, y |-> 1150, type |-> "door", accessible |-> TRUE],
     [id |-> "NODE_DOOR_LAB", x |-> -500, y |-> 1150, type |-> "door", accessible |-> TRUE],
     [id |-> "NODE_DOOR_OFF4A", x |-> 600, y |-> 1150, type |-> "door", accessible |-> TRUE],
     [id |-> "NODE_DOOR_CONF_N", x |-> 800, y |-> 850, type |-> "door", accessible |-> TRUE],
     [id |-> "NODE_DOOR_CONF_S", x |-> 500, y |-> -650, type |-> "door", accessible |-> TRUE],
     [id |-> "NODE_DOOR_OFF1", x |-> -1650, y |-> 400, type |-> "door", accessible |-> TRUE],
     [id |-> "NODE_DOOR_OFF2", x |-> -1650, y |-> 0, type |-> "door", accessible |-> TRUE],
     [id |-> "NODE_DOOR_OFF3", x |-> -1200, y |-> -650, type |-> "door", accessible |-> TRUE],
     [id |-> "NODE_DOOR_BREAK", x |-> -1200, y |-> -950, type |-> "door", accessible |-> TRUE],
     [id |-> "NODE_DOOR_BATH", x |-> -700, y |-> -950, type |-> "door", accessible |-> TRUE],
     [id |-> "NODE_DOOR_STORAGE", x |-> 600, y |-> -950, type |-> "door", accessible |-> TRUE] >>

EDGES ==
  << [from |-> "NODE_NC_W", to |-> "NODE_NC_1", type |-> "corridor", accessible |-> TRUE],
     [from |-> "NODE_NC_1", to |-> "NODE_NC_NW", type |-> "corridor", accessible |-> TRUE],
     [from |-> "NODE_NC_NW", to |-> "NODE_NC_2", type |-> "corridor", accessible |-> TRUE],
     [from |-> "NODE_NC_2", to |-> "NODE_NC_C", type |-> "corridor", accessible |-> TRUE],
     [from |-> "NODE_NC_C", to |-> "NODE_NC_3", type |-> "corridor", accessible |-> TRUE],
     [from |-> "NODE_NC_3", to |-> "NODE_NC_E", type |-> "corridor", accessible |-> TRUE],
     [from |-> "NODE_NC_E", to |-> "NODE_EXIT_A", type |-> "corridor", accessible |-> TRUE],
     [from |-> "NODE_DEAD_1", to |-> "NODE_SC_W", type |-> "corridor", accessible |-> TRUE],
     [from |-> "NODE_SC_W", to |-> "NODE_SC_1", type |-> "corridor", accessible |-> TRUE],
     [from |-> "NODE_SC_1", to |-> "NODE_SC_2", type |-> "corridor", accessible |-> TRUE],
     [from |-> "NODE_SC_2", to |-> "NODE_SC_C", type |-> "corridor", accessible |-> TRUE],
     [from |-> "NODE_SC_C", to |-> "NODE_SC_3", type |-> "corridor", accessible |-> TRUE],
     [from |-> "NODE_SC_3", to |-> "NODE_SC_4", type |-> "corridor", accessible |-> TRUE],
     [from |-> "NODE_SC_4", to |-> "NODE_SC_E", type |-> "corridor", accessible |-> TRUE],
     [from |-> "NODE_SC_E", to |-> "NODE_SC_SE", type |-> "corridor", accessible |-> TRUE],
     [from |-> "NODE_NC_W", to |-> "NODE_WB_1", type |-> "corridor", accessible |-> TRUE],
     [from |-> "NODE_WB_1", to |-> "NODE_WB_2", type |-> "corridor", accessible |-> TRUE],
     [from |-> "NODE_WB_2", to |-> "NODE_SC_W", type |-> "corridor", accessible |-> TRUE],
     [from |-> "NODE_NC_C", to |-> "NODE_SC_C", type |-> "corridor", accessible |-> TRUE],
     [from |-> "NODE_NC_E", to |-> "NODE_EW_MID", type |-> "corridor", accessible |-> TRUE],
     [from |-> "NODE_EW_MID", to |-> "NODE_SC_E", type |-> "corridor", accessible |-> TRUE],
     [from |-> "NODE_EW_MID", to |-> "NODE_EXIT_A", type |-> "corridor", accessible |-> TRUE],
     [from |-> "NODE_NC_NW", to |-> "NODE_NW_MID", type |-> "corridor", accessible |-> TRUE],
     [from |-> "NODE_NW_MID", to |-> "NODE_EXIT_C", type |-> "corridor", accessible |-> TRUE],
     [from |-> "NODE_SC_SE", to |-> "NODE_SE_MID", type |-> "corridor", accessible |-> TRUE],
     [from |-> "NODE_SE_MID", to |-> "NODE_EXIT_B", type |-> "corridor", accessible |-> TRUE],
     [from |-> "NODE_SC_W", to |-> "NODE_DEAD_1", type |-> "corridor", accessible |-> TRUE],
     [from |-> "NODE_DEAD_1", to |-> "NODE_DEAD_2", type |-> "corridor", accessible |-> TRUE],
     [from |-> "NODE_NC_3", to |-> "NODE_DOOR_CONF_N", type |-> "door", accessible |-> TRUE],
     [from |-> "NODE_DOOR_CONF_N", to |-> "NODE_DOOR_CONF_S", type |-> "room", accessible |-> TRUE],
     [from |-> "NODE_DOOR_CONF_S", to |-> "NODE_SC_3", type |-> "door", accessible |-> TRUE],
     [from |-> "NODE_NC_W", to |-> "NODE_DOOR_STAIRS1", type |-> "corridor", accessible |-> TRUE],
     [from |-> "NODE_DOOR_STAIRS1", to |-> "NODE_STAIRS_1", type |-> "stairs", accessible |-> FALSE],
     [from |-> "NODE_SE_MID", to |-> "NODE_STAIRS_2", type |-> "stairs", accessible |-> FALSE],
     [from |-> "NODE_SE_MID", to |-> "NODE_ELEVATOR", type |-> "elevator", accessible |-> TRUE],
     [from |-> "NODE_NC_1", to |-> "NODE_DOOR_REFUGE1", type |-> "door", accessible |-> TRUE],
     [from |-> "NODE_DOOR_REFUGE1", to |-> "NODE_REFUGE_1", type |-> "corridor", accessible |-> TRUE],
     [from |-> "NODE_SE_MID", to |-> "NODE_REFUGE_2", type |-> "corridor", accessible |-> TRUE],
     [from |-> "NODE_ELEVATOR", to |-> "NODE_RAMP", type |-> "ramp", accessible |-> TRUE],
     [from |-> "NODE_NC_2", to |-> "NODE_DOOR_LAB", type |-> "door", accessible |-> TRUE],
     [from |-> "NODE_NC_3", to |-> "NODE_DOOR_OFF4A", type |-> "door", accessible |-> TRUE],
     [from |-> "NODE_WB_1", to |-> "NODE_DOOR_OFF1", type |-> "door", accessible |-> TRUE],
     [from |-> "NODE_WB_2", to |-> "NODE_DOOR_OFF2", type |-> "door", accessible |-> TRUE],
     [from |-> "NODE_SC_1", to |-> "NODE_DOOR_OFF3", type |-> "door", accessible |-> TRUE],
     [from |-> "NODE_SC_1", to |-> "NODE_DOOR_BREAK", type |-> "door", accessible |-> TRUE],
     [from |-> "NODE_SC_2", to |-> "NODE_DOOR_BATH", type |-> "door", accessible |-> TRUE],
     [from |-> "NODE_SC_4", to |-> "NODE_DOOR_STORAGE", type |-> "door", accessible |-> TRUE] >>

\* the blocked edges of simulateFire
FireBlockedEdges ==
  << [from |-> "NODE_NC_3", to |-> "NODE_NC_E"],
     [from |-> "NODE_NC_E", to |-> "NODE_EW_MID"] >>

-----------------------------------------------------------------------------
(* Synthetic inputs: six points of a grid of 3 m by 4 m cells.  The exit   *)
(* n4 is a node that is not accessible itself and has accessible edges.    *)

SampleNodes ==
  << [id |-> "n1", x |-> 0,   y |-> 0,   type |-> "intersection", accessible |-> TRUE],
     [id |-> "n2", x |-> 600, y |-> 0,   type |-> "exit",         accessible |-> TRUE],
     [id |-> "n3", x |-> 300, y |-> 400, type |-> "refuge",       accessible |-> TRUE],
     [id |-> "n4", x |-> 300, y |-> 0,   type |-> "exit",         accessible |-> FALSE],
     [id |-> "n5", x |-> 600, y |-> 400, type |-> "refuge",       accessible |-> TRUE],
     [id |-> "n6", x |-> 600, y |-> 800, type |-> "door",         accessible |-> TRUE] >>

\* The candidate edges; an input edge list is a sub-list of it.  The edge to
\* n6 names a node outside the node list while MaxNodes < 6.
EdgePool ==
  << [from |-> "n1", to |-> "n4", type |-> "corridor", accessible |-> TRUE],
     [from |-> "n4", to |-> "n2", type |-> "corridor", accessible |-> TRUE],
     [from |-> "n1", to |-> "n3", type |-> "stairs",   accessible |-> FALSE],
     [from |-> "n3", to |-> "n2", type |-> "corridor", accessible |-> TRUE],
     [from |-> "n3", to |-> "n1", type |-> "door",     accessible |-> TRUE],
     [from |-> "n3", to |-> "n5", type |-> "corridor", accessible |-> TRUE],
     [from |-> "n2", to |-> "n5", type |-> "stairs",   accessible |-> FALSE],
     [from |-> "n5", to |-> "n6", type |-> "door",     accessible |-> TRUE] >>

\* The candidate blocked pairs; an input blockedEdges list is a sub-list of it.
BlockPool ==
  << [from |-> "n4", to |-> "n1"],
     [from |-> "n3", to |-> "n2"],
     [from |-> "n1", to |-> "n3"] >>

\* TRUE, once v has been evaluated: an operator argument is evaluated where
\* it is first used, and a fold that hands on an unevaluated accumulator
\* nests as deep as the list is long
Evaluated(v) == v = v

\* the sub-list of s at the positions in idx, in the order of s
RECURSIVE SubList(_, _, _)
SubList(s, idx, i) ==
  IF i > Len(s) THEN << >>
  ELSE IF i \in idx THEN << s[i] >> \o SubList(s, idx, i + 1)
  ELSE SubList(s, idx, i + 1)

-----------------------------------------------------------------------------
(* pathfinding.js: dijkstra.  A loop of the source over a list is a fold   *)
(* over an index range lo..hi here, split in halves so that the evaluation *)
(* stays shallow; the elements are visited in list order.                  *)

\* Math.sqrt on the centimetre grid: the largest r with r * r <= n
RECURSIVE SqrtBetween(_, _, _)
SqrtBetween(n, lo, hi) ==
  IF lo >= hi THEN lo
  ELSE LET mid == (lo + hi + 1) \div 2
       IN IF mid * mid <= n THEN SqrtBetween(n, mid, hi)
          ELSE SqrtBetween(n, lo, mid - 1)

Sqrt(n) == SqrtBetween(n, 0, 46340)

\* Math.sqrt((n1.x - n2.x) ** 2 + (n1.y - n2.y) ** 2)
EuclidDist(n1, n2) ==
  Sqrt((n1.x - n2.x) * (n1.x - n2.x) + (n1.y - n2.y) * (n1.y - n2.y))

\* the keys of nodeMap and adj after nodes.forEach
NodeIds(ns) == { ns[i].id : i \in 1..Len(ns) }

\* nodes.forEach(n => { nodeMap[n.id] = n }) over the nodes lo..hi: a later
\* node replaces an earlier one with the same id
RECURSIVE NodeMapOf(_, _, _)
NodeMapOf(ns, lo, hi) ==
  IF lo > hi THEN << >>
  ELSE IF lo = hi THEN ns[lo].id :> ns[lo]
  ELSE LET mid == (lo + hi) \div 2
       IN NodeMapOf(ns, mid + 1, hi) @@ NodeMapOf(ns, lo, mid)

NodeMap(ns) == NodeMapOf(ns, 1, Len(ns))

\* a variant of SkipInaccessible that ignores the accessible flag
SkipInaccessible_Never(wm, e) == FALSE

\* wheelchairMode && !e.accessible
SkipInaccessible(wm, e) == wm /\ ~e.accessible

\* a variant of IsBlocked that matches a blocked pair in its own direction only
IsBlocked_OneWay(blocked, e) ==
  \E k \in 1..Len(blocked) : blocked[k].from = e.from /\ blocked[k].to = e.to

\* blockedEdges.some(b => b.from === e.from && b.to === e.to || b.from === e.to && b.to === e.from)
IsBlocked(blocked, e) ==
  \E k \in 1..Len(blocked) :
     \/ blocked[k].from = e.from /\ blocked[k].to = e.to
     \/ blocked[k].from = e.to /\ blocked[k].to = e.from

\* a variant of AddEdge that enters the edge at its from node only
AddEdge_OneSided(adj, nodeMap, wm, blocked, e) ==
  IF SkipInaccessible(wm, e) THEN adj
  ELSE IF IsBlocked(blocked, e) THEN adj
  ELSE IF ~(e.from \in DOMAIN nodeMap /\ e.to \in DOMAIN nodeMap) THEN adj
  ELSE [adj EXCEPT ![e.from] =
          Append(@, [node |-> e.to, dist |-> EuclidDist(nodeMap[e.from], nodeMap[e.to])])]

\* one call of the edges.forEach callback
AddEdge(adj, nodeMap, wm, blocked, e) ==
  IF SkipInaccessible(wm, e) THEN adj
  ELSE IF IsBlocked(blocked, e) THEN adj
  ELSE IF ~(e.from \in DOMAIN nodeMap /\ e.to \in DOMAIN nodeMap) THEN adj
  ELSE LET d  == EuclidDist(nodeMap[e.from], nodeMap[e.to])
           a1 == [adj EXCEPT ![e.from] = Append(@, [node |-> e.to, dist |-> d])]
       IN  [a1 EXCEPT ![e.to] = Append(@, [node |-> e.from, dist |-> d])]

\* edges.forEach over the edges lo..hi
RECURSIVE AddEdges(_, _, _, _, _, _, _)
AddEdges(adj, nodeMap, wm, blocked, es, lo, hi) ==
  IF lo > hi THEN adj
  ELSE IF lo = hi THEN AddEdge(adj, nodeMap, wm, blocked, es[lo])
  ELSE LET mid  == (lo + hi) \div 2
           left == AddEdges(adj, nodeMap, wm, blocked, es, lo, mid)
       IN IF Evaluated(left)
          THEN AddEdges(left, nodeMap, wm, blocked, es, mid + 1, hi)
          ELSE left

\* the adjacency list: adj[id] is the list of {node, dist} in insertion order
BuildAdj(ns, es, wm, blocked) ==
  AddEdges([id \in NodeIds(ns) |-> << >>], NodeMap(ns), wm, blocked, es, 1, Len(es))

\* the keys of an object filled by nodes.forEach, in insertion order
RECURSIVE KeyOrder(_, _, _)
KeyOrder(ns, lo, hi) ==
  IF lo > hi THEN << >>
  ELSE IF lo = hi
       THEN IF \E j \in 1..(lo - 1) : ns[j].id = ns[lo].id THEN << >> ELSE << ns[lo].id >>
  ELSE LET mid == (lo + hi) \div 2
       IN KeyOrder(ns, lo, mid) \o KeyOrder(ns, mid + 1, hi)

\* obj[key] = value
Put(obj, key, value) ==
  IF key \in DOMAIN obj.val
  THEN [obj EXCEPT !.val[key] = value]
  ELSE [keys |-> Append(obj.keys, key), val |-> (key :> value) @@ obj.val]

\* dist[id] where a number is expected
GetNum(obj, key) == IF key \in DOMAIN obj.val THEN obj.val[key] ELSE Undefined

\* prev[id] where a node id is expected
GetId(obj, key) == IF key \in DOMAIN obj.val THEN obj.val[key] ELSE NullId

\* a variant of InitDist that leaves out dist[startId] = 0
InitDist_NoStart(ns, start) ==
  [keys |-> KeyOrder(ns, 1, Len(ns)), val |-> [id \in NodeIds(ns) |-> Infinity]]

\* dist after nodes.forEach(n => dist[n.id] = Infinity); dist[startId] = 0
InitDist(ns, start) ==
  Put([keys |-> KeyOrder(ns, 1, Len(ns)), val |-> [id \in NodeIds(ns) |-> Infinity]], start, 0)

\* the state of the loop before its first iteration
InitLoop(ns, start) ==
  [dist    |-> InitDist(ns, start),
   prev    |-> [keys |-> << >>, val |-> << >>],
   visited |-> {}]

\* a variant of Closer that compares with Infinity and not with minDist
Closer_AnyReached(st, id, minDist) == id \notin st.visited /\ st.dist.val[id] < Infinity

\* the test of the selection scan: !visited.has(id) && dist[id] < minDist
Closer(st, id, minDist) == id \notin st.visited /\ st.dist.val[id] < minDist

\* the scan `for (const id in dist)` over the keys lo..hi, from the pair
\* (minNode, minDist) in acc
RECURSIVE ScanMin(_, _, _, _)
ScanMin(st, lo, hi, acc) ==
  IF lo > hi THEN acc
  ELSE IF lo = hi
       THEN LET id == st.dist.keys[lo]
            IN IF Closer(st, id, acc.minDist)
               THEN [minNode |-> id, minDist |-> st.dist.val[id]]
               ELSE acc
  ELSE LET mid  == (lo + hi) \div 2
           left == ScanMin(st, lo, mid, acc)
       IN IF Evaluated(left) THEN ScanMin(st, mid + 1, hi, left) ELSE left

\* minNode after the scan: the selected node, or NullId
SelectMin(st) ==
  ScanMin(st, 1, Len(st.dist.keys), [minNode |-> NullId, minDist |-> Infinity]).minNode

\* a variant of Improves that also takes an equal distance
Improves_OrEqual(newDist, oldDist) == newDist <= oldDist

\* the test of the relaxation: newDist < dist[neighbor.node]
Improves(newDist, oldDist) == newDist < oldDist

\* one pass of `for (const neighbor of adj[minNode] || [])`
RelaxOne(st, minNode, neighbor) ==
  IF neighbor.node \in st.visited THEN st
  ELSE LET newDist == st.dist.val[minNode] + neighbor.dist
       IN IF Improves(newDist, GetNum(st.dist, neighbor.node))
          THEN [st EXCEPT !.dist = Put(@, neighbor.node, newDist),
                          !.prev = Put(@, neighbor.node, minNode)]
          ELSE st

RECURSIVE RelaxAll(_, _, _, _)
RelaxAll(st, minNode, nbrs, i) ==
  IF i > Len(nbrs) THEN st
  ELSE RelaxAll(RelaxOne(st, minNode, nbrs[i]), minNode, nbrs, i + 1)

\* a variant of Visit that relaxes the neighbours without visited.add(minNode)
Visit_NoMark(st, adj, minNode) ==
  RelaxAll(st, minNode, IF minNode \in DOMAIN adj THEN adj[minNode] ELSE << >>, 1)

\* the body of the while loop after the break test
Visit(st, adj, minNode) ==
  RelaxAll([st EXCEPT !.visited = @ \cup {minNode}], minNode,
           IF minNode \in DOMAIN adj THEN adj[minNode] ELSE << >>, 1)

\* if (!minNode || minNode === endId) break
LoopBreaks(minNode, end) == minNode = NullId \/ minNode = end

\* one iteration of while (true): a break leaves the state as it is
Round(st, adj, end) ==
  LET minNode == SelectMin(st)
  IN IF LoopBreaks(minNode, end) THEN st ELSE Visit(st, adj, minNode)

\* n iterations of the loop, stopping at a break
RECURSIVE Rounds(_, _, _, _)
Rounds(st, adj, end, n) ==
  IF n <= 1 THEN Round(st, adj, end)
  ELSE LET half == Rounds(st, adj, end, n \div 2)
       IN IF LoopBreaks(SelectMin(half), end) THEN half
          ELSE Rounds(half, adj, end, n - n \div 2)

\* while (true) { ... }: an iteration that does not break adds a key of dist
\* to visited, so the loop has broken after Len(dist.keys) + 1 iterations
RunLoop(st, adj, end) == Rounds(st, adj, end, Len(st.dist.keys) + 1)

\* a variant of WalkBack that appends (push) where the source prepends
RECURSIVE WalkBack_Push(_, _, _)
WalkBack_Push(prev, current, walked) ==
  IF current = NullId THEN walked
  ELSE WalkBack_Push(prev, GetId(prev, current), Append(walked, current))

\* while (current) { path.unshift(current); current = prev[current]; }
RECURSIVE WalkBack(_, _, _)
WalkBack(prev, current, walked) ==
  IF current = NullId THEN walked
  ELSE WalkBack(prev, GetId(prev, current), << current >> \o walked)

\* a variant of Unreached that never reports an unreached target
Unreached_Never(st, end) == FALSE

\* if (dist[endId] === Infinity) return null
Unreached(st, end) == GetNum(st.dist, end) = Infinity

\* the return of dijkstra from the state the loop ended in
DijkstraResult(st, end) ==
  IF Unreached(st, end) THEN Null
  ELSE [path |-> WalkBack(st.prev, end, << >>), distance |-> GetNum(st.dist, end)]

Dijkstra(start, end, ns, es, wm, blocked) ==
  DijkstraResult(RunLoop(InitLoop(ns, start), BuildAdj(ns, es, wm, blocked), end), end)

-----------------------------------------------------------------------------
(* pathfinding.js: findNearestExit.                                        *)

\* nodes.filter(n => n.type === type), as the list of ids
IdsOfType(ns, type) ==
  LET IsType(n) == n.type = type
      found == SelectSeq(ns, IsType)
  IN [i \in 1..Len(found) |-> found[i].id]

\* a variant of Better that keeps the first target found
Better_FirstFound(res, best) == res # Null /\ best = Null

\* result && (!best || result.distance < best.distance)
Better(res, best) == res # Null /\ (best = Null \/ res.distance < best.distance)

\* one of the two `for (const target of targets)` loops
RECURSIVE SearchTargets(_, _, _, _, _, _, _, _, _)
SearchTargets(targets, i, best, isRefuge, start, ns, es, wm, blocked) ==
  IF i > Len(targets) THEN best
  ELSE LET res == Dijkstra(start, targets[i], ns, es, wm, blocked)
           nxt == IF Better(res, best)
                  THEN [path |-> res.path, distance |-> res.distance,
                        targetId |-> targets[i], isRefuge |-> isRefuge]
                  ELSE best
       IN SearchTargets(targets, i + 1, nxt, isRefuge, start, ns, es, wm, blocked)

\* a variant of RefugeFallback that never searches the refuges
RefugeFallback_Never(best, wm) == FALSE

\* a variant of RefugeFallback that searches the refuges whenever wheelchair
\* mode is on
RefugeFallback_Always(best, wm) == wm

\* a variant of RefugeFallback that searches the refuges in either mode
RefugeFallback_AnyMode(best, wm) == best = Null

\* if (!best && wheelchairMode)
RefugeFallback(best, wm) == best = Null /\ wm

FindNearestExit(start, ns, es, wm, blocked) ==
  LET best == SearchTargets(IdsOfType(ns, "exit"), 1, Null, FALSE,
                            start, ns, es, wm, blocked)
  IN IF RefugeFallback(best, wm)
     THEN SearchTargets(IdsOfType(ns, "refuge"), 1, Null, TRUE,
                        start, ns, es, wm, blocked)
     ELSE best

-----------------------------------------------------------------------------
(* pathfinding.js: generateDirections, and MapView3D.jsx:                  *)
(* generateVoiceDirections.  An index i of the source (from 0) is kept as  *)
(* it is; PathAt reads path[i].  A cross or dot product is in square       *)
(* centimetres: 10000 times the value of the source.  The dash of the      *)
(* heading text is written "--".                                           *)

\* number of nodes of the longest path handed to a direction synthesizer
MaxPathLen == 4

\* the nodes the direction synthesizers are run on
DirNodes ==
  << [id |-> "NODE_A",        x |-> 0,   y |-> 0,   type |-> "intersection", accessible |-> TRUE],
     [id |-> "NODE_LIFT",     x |-> 100, y |-> 0,   type |-> "elevator",     accessible |-> TRUE,  label |-> "Elevator"],
     [id |-> "NODE_STAIRS_1", x |-> 200, y |-> 0,   type |-> "stairs",       accessible |-> FALSE, label |-> "Stairs 1"],
     [id |-> "NODE_RAMP",     x |-> 100, y |-> 50,  type |-> "ramp",         accessible |-> TRUE,  label |-> "Ramp"],
     [id |-> "NODE_REFUGE_1", x |-> 100, y |-> 300, type |-> "refuge",       accessible |-> TRUE,  label |-> "Refuge 1"],
     [id |-> "NODE_EXIT_A",   x |-> 100, y |-> 30,  type |-> "exit",         accessible |-> TRUE,  label |-> "Exit A"],
     [id |-> "NODE_DOOR_LAB", x |-> 300, y |-> 200, type |-> "door",         accessible |-> TRUE] >>

\* the paths handed to a direction synthesizer: every list of at most
\* MaxPathLen ids of the node list
Paths(ns) == UNION { [1..n -> NodeIds(ns)] : n \in 0..MaxPathLen }

\* Math.abs
Abs(v) == IF v < 0 THEN 0 - v ELSE v

\* nodeMap[id]: undefined (Null here) for an id that is not a key
Lookup(nodeMap, id) == IF id \in DOMAIN nodeMap THEN nodeMap[id] ELSE Null

\* path[i]
PathAt(p, i) == p[i + 1]

\* Math.sqrt(dx * dx + dy * dy).toFixed(0): the length in metres, rounded to
\* the nearest integer, as a string
ToFixed0(dx, dy) == ToString((Sqrt(dx * dx + dy * dy) + 50) \div 100)

\* the dominant axis of a hop
HeadingOf(dx, dy) ==
  IF Abs(dx) > Abs(dy)
  THEN (IF dx > 0 THEN "east" ELSE "west")
  ELSE (IF dy > 0 THEN "north" ELSE "south")

\* dx * dy2 - dy * dx2
Cross(dx, dy, dx2, dy2) == dx * dy2 - dy * dx2

\* dx * dx2 + dy * dy2
Dot(dx, dy, dx2, dy2) == dx * dx2 + dy * dy2

\* the 0.5 of the turn tests, in square centimetres
TurnThreshold == 5000

\* a variant of TurnOf that takes |cross| = 0.5 for a turn
TurnOf_Inclusive(cross) ==
  IF Abs(cross) >= TurnThreshold
  THEN (IF cross > 0 THEN "Turn left" ELSE "Turn right")
  ELSE "Continue straight"

\* the turn of generateDirections at a node that has a next node
TurnOf(cross) ==
  IF Abs(cross) > TurnThreshold
  THEN (IF cross > 0 THEN "Turn left" ELSE "Turn right")
  ELSE "Continue straight"

\* turn.includes('left') ? 'left' : turn.includes('right') ? 'right' : 'straight'
TurnType(turn) ==
  IF turn = "Turn left" THEN "left"
  ELSE IF turn = "Turn right" THEN "right"
  ELSE "straight"

\* id.replace('NODE_', '').replace(/_/g, ' ') for the ids of DirNodes and of
\* NODES; an id without NODE_ and without underscore is left as it is
IdLabel(id) ==
  CASE id = "NODE_A"        -> "A"
    [] id = "NODE_LIFT"     -> "LIFT"
    [] id = "NODE_STAIRS_1" -> "STAIRS 1"
    [] id = "NODE_RAMP"     -> "RAMP"
    [] id = "NODE_REFUGE_1" -> "REFUGE 1"
    [] id = "NODE_EXIT_A"   -> "EXIT A"
    [] id = "NODE_DOOR_LAB" -> "DOOR LAB"
    [] id = "NODE_EXIT_B" -> "EXIT B"
    [] id = "NODE_EXIT_C" -> "EXIT C"
    [] id = "NODE_ELEVATOR" -> "ELEVATOR"
    [] id = "NODE_STAIRS_2" -> "STAIRS 2"
    [] id = "NODE_REFUGE_2" -> "REFUGE 2"
    [] id = "NODE_NC_W" -> "NC W"
    [] id = "NODE_NC_1" -> "NC 1"
    [] id = "NODE_NC_NW" -> "NC NW"
    [] id = "NODE_NC_2" -> "NC 2"
    [] id = "NODE_NC_C" -> "NC C"
    [] id = "NODE_NC_3" -> "NC 3"
    [] id = "NODE_NC_E" -> "NC E"
    [] id = "NODE_SC_W" -> "SC W"
    [] id = "NODE_SC_1" -> "SC 1"
    [] id = "NODE_SC_2" -> "SC 2"
    [] id = "NODE_SC_C" -> "SC C"
    [] id = "NODE_SC_3" -> "SC 3"
    [] id = "NODE_SC_4" -> "SC 4"
    [] id = "NODE_SC_E" -> "SC E"
    [] id = "NODE_SC_SE" -> "SC SE"
    [] id = "NODE_WB_1" -> "WB 1"
    [] id = "NODE_WB_2" -> "WB 2"
    [] id = "NODE_EW_MID" -> "EW MID"
    [] id = "NODE_NW_MID" -> "NW MID"
    [] id = "NODE_SE_MID" -> "SE MID"
    [] id = "NODE_DEAD_1" -> "DEAD 1"
    [] id = "NODE_DEAD_2" -> "DEAD 2"
    [] id = "NODE_DOOR_STAIRS1" -> "DOOR STAIRS1"
    [] id = "NODE_DOOR_REFUGE1" -> "DOOR REFUGE1"
    [] id = "NODE_DOOR_OFF4A" -> "DOOR OFF4A"
    [] id = "NODE_DOOR_CONF_N" -> "DOOR CONF N"
    [] id = "NODE_DOOR_CONF_S" -> "DOOR CONF S"
    [] id = "NODE_DOOR_OFF1" -> "DOOR OFF1"
    [] id = "NODE_DOOR_OFF2" -> "DOOR OFF2"
    [] id = "NODE_DOOR_OFF3" -> "DOOR OFF3"
    [] id = "NODE_DOOR_BREAK" -> "DOOR BREAK"
    [] id = "NODE_DOOR_BATH" -> "DOOR BATH"
    [] id = "NODE_DOOR_STORAGE" -> "DOOR STORAGE"
    [] OTHER                -> id

\* the node has a label that is not falsy
HasLabel(n) == "label" \in DOMAIN n /\ n.label # ""

\* curr.label || curr.id.replace(...)
LabelOf(n) == IF HasLabel(n) THEN n.label ELSE IdLabel(n.id)

\* turn ? `${turn} at ${label}` : `Head ${direction} -- ${dist}m`
StepText(turn, label, direction, dist) ==
  IF turn # ""
  THEN turn \o " at " \o label
  ELSE "Head " \o direction \o " -- " \o dist \o "m"

\* a variant of IsLast that takes the node before the last for the last
IsLast_OneEarly(p, i) == i >= Len(p) - 2

\* i === path.length - 1
IsLast(p, i) == i = Len(p) - 1

\* one pass of the loop of generateDirections: the steps it pushes
DirectionStep(p, nodeMap, i) ==
  LET prev == Lookup(nodeMap, PathAt(p, i - 1))
      curr == Lookup(nodeMap, PathAt(p, i))
      next == IF i < Len(p) - 1 THEN Lookup(nodeMap, PathAt(p, i + 1)) ELSE Null
  IN IF prev = Null \/ curr = Null THEN << >>
     ELSE LET dx        == curr.x - prev.x
              dy        == curr.y - prev.y
              dist      == ToFixed0(dx, dy)
              direction == HeadingOf(dx, dy)
              turn      == IF next # Null /\ i < Len(p) - 1
                           THEN TurnOf(Cross(dx, dy, next.x - curr.x, next.y - curr.y))
                           ELSE ""
              label     == LabelOf(curr)
          IN IF IsLast(p, i)
             THEN << [text |-> "Arrive at " \o label, distance |-> dist, type |-> "arrive"] >>
             ELSE << [text     |-> StepText(turn, label, direction, dist),
                      distance |-> dist,
                      type     |-> TurnType(turn)] >>

\* for (let i = 1; i < path.length; i++), from i on
RECURSIVE DirectionSteps(_, _, _)
DirectionSteps(p, nodeMap, i) ==
  IF i >= Len(p) THEN << >>
  ELSE DirectionStep(p, nodeMap, i) \o DirectionSteps(p, nodeMap, i + 1)

GenerateDirections(p, ns) ==
  IF Len(p) < 2 THEN << >> ELSE DirectionSteps(p, NodeMap(ns), 1)

\* the advisory phrase of a node type, empty for the other types
SpecialText(nodeType) ==
  CASE nodeType = "elevator" -> "Take the elevator."
    [] nodeType = "stairs"   -> "Use the stairwell."
    [] nodeType = "ramp"     -> "Use the ramp."
    [] nodeType = "refuge"   -> "Proceed to the refuge area. Help is on the way."
    [] OTHER                 -> ""

\* a variant of OrText that keeps the turn phrase
OrText_Default(specialText, dflt) == dflt

\* specialText || 'Turn left.'
OrText(specialText, dflt) == IF specialText # "" THEN specialText ELSE dflt

\* the text of the arrival at curr
ArriveText(curr) ==
  LET label == IF HasLabel(curr) THEN curr.label ELSE curr.type
  IN IF curr.type = "refuge" THEN "You have reached the refuge area. Help is on the way."
     ELSE IF curr.type = "exit" THEN "You have reached " \o label \o ". Exit the building now."
     ELSE "You have arrived at " \o label \o "."

\* the step of a straight continuation
StraightStep(specialText, id) ==
  IF specialText # ""
  THEN [text |-> specialText, nodeId |-> id, type |-> "special"]
  ELSE [text |-> "Continue straight.", nodeId |-> id, type |-> "straight"]

\* the step of generateVoiceDirections at a node that has a next node
VoiceTurnStep(cross, dot, specialText, id) ==
  IF Abs(cross) < TurnThreshold /\ dot > 0 THEN StraightStep(specialText, id)
  ELSE IF cross > TurnThreshold
       THEN [text |-> OrText(specialText, "Turn left."), nodeId |-> id, type |-> "left"]
  ELSE IF cross < 0 - TurnThreshold
       THEN [text |-> OrText(specialText, "Turn right."), nodeId |-> id, type |-> "right"]
  ELSE StraightStep(specialText, id)

\* one pass of the loop of generateVoiceDirections: the steps it pushes
VoiceStep(p, nodeMap, i) ==
  LET prev == Lookup(nodeMap, PathAt(p, i - 1))
      curr == Lookup(nodeMap, PathAt(p, i))
      next == IF i < Len(p) - 1 THEN Lookup(nodeMap, PathAt(p, i + 1)) ELSE Null
  IN IF prev = Null \/ curr = Null THEN << >>
     ELSE LET dx == curr.x - prev.x
              dy == curr.y - prev.y
          IN IF IsLast(p, i)
             THEN << [text |-> ArriveText(curr), nodeId |-> PathAt(p, i), type |-> "arrive"] >>
             ELSE IF next = Null THEN << >>
             ELSE LET dx2 == next.x - curr.x
                      dy2 == next.y - curr.y
                  IN << VoiceTurnStep(Cross(dx, dy, dx2, dy2), Dot(dx, dy, dx2, dy2),
                                      SpecialText(curr.type), PathAt(p, i)) >>

RECURSIVE VoiceSteps(_, _, _)
VoiceSteps(p, nodeMap, i) ==
  IF i >= Len(p) THEN << >>
  ELSE VoiceStep(p, nodeMap, i) \o VoiceSteps(p, nodeMap, i + 1)

\* a variant of StartSteps that emits no start step
StartSteps_None(p, nodeMap) == << >>

\* the first instruction; both nodes are nodes of the map
StartSteps(p, nodeMap) ==
  LET startNode  == nodeMap[PathAt(p, 0)]
      secondNode == nodeMap[PathAt(p, 1)]
      startDir   == HeadingOf(secondNode.x - startNode.x, secondNode.y - startNode.y)
  IN << [text   |-> "Route calculated. Head " \o startDir \o ".",
         nodeId |-> PathAt(p, 0),
         type   |-> "start"] >>

GenerateVoiceDirections(p, ns) ==
  IF Len(p) < 2 THEN << >>
  ELSE StartSteps(p, NodeMap(ns)) \o VoiceSteps(p, NodeMap(ns), 1)

-----------------------------------------------------------------------------
(* The specifications: the inputs are drawn at Init, and each action is    *)
(* one invocation of a core operation on them.                             *)

\* no call of dijkstra is under way
LoopIdle == loop = Null

\* no map component is mounted
MapUnmounted ==
  /\ component = "none"
  /\ mode = "none"
  /\ selectedStart = NullId
  /\ selectedEnd = NullId
  /\ currentPath = Null
  /\ pathInfo = Null
  /\ directions = << >>
  /\ currentStep = 0
  /\ emergencyMode = FALSE
  /\ vibrationEnabled = FALSE
  /\ effectDue = FALSE
  /\ timers = << >>
  /\ event = [name |-> "none", out |-> << >>]

\* App is not mounted
AppUnmounted ==
  /\ currentPage = "none"
  /\ currentUser = NullId
  /\ userProfile = Null
  /\ authState = "unknown"
  /\ pending = {}

\* nothing but dijkstra is in use
BeyondLoopIdle == MapUnmounted /\ AppUnmounted

\* nothing but a core operation is in use
BeyondCallIdle == LoopIdle /\ BeyondLoopIdle

Init ==
  /\ nodes = SubSeq(SampleNodes, 1, MaxNodes)
  /\ \E idx \in SUBSET (1..Len(EdgePool)) : edges = SubList(EdgePool, idx, 1)
  /\ wheelchairMode \in BOOLEAN
  /\ \E idx \in SUBSET (1..Len(BlockPool)) :
        /\ Cardinality(idx) <= MaxBlocked
        /\ blockedEdges = SubList(BlockPool, idx, 1)
  /\ op = "none"
  /\ startId = NullId
  /\ endId = NullId
  /\ path = << >>
  /\ result = Null
  /\ BeyondCallIdle

\* a variant of InitShipped whose node list lacks its first node, NODE_EXIT_A
InitShipped_MissingNode ==
  /\ nodes = SubSeq(NODES, 2, Len(NODES))
  /\ edges = EDGES
  /\ wheelchairMode \in BOOLEAN
  /\ blockedEdges \in { << >>, FireBlockedEdges }
  /\ op = "none"
  /\ startId = NullId
  /\ endId = NullId
  /\ path = << >>
  /\ result = Null
  /\ BeyondCallIdle

\* the shipped building, without hazard or with the fire of simulateFire
InitShipped ==
  /\ nodes = NODES
  /\ edges = EDGES
  /\ wheelchairMode \in BOOLEAN
  /\ blockedEdges \in { << >>, FireBlockedEdges }
  /\ op = "none"
  /\ startId = NullId
  /\ endId = NullId
  /\ path = << >>
  /\ result = Null
  /\ BeyondCallIdle

CallDijkstra ==
  /\ op = "none"
  /\ \E s \in NodeIds(nodes), e \in NodeIds(nodes) :
        /\ startId' = s
        /\ endId' = e
        /\ result' = Dijkstra(s, e, nodes, edges, wheelchairMode, blockedEdges)
  /\ op' = "dijkstra"
  /\ UNCHANGED << nodes, edges, wheelchairMode, blockedEdges, path, beyondCall >>

CallFindNearestExit ==
  /\ op = "none"
  /\ \E s \in NodeIds(nodes) :
        /\ startId' = s
        /\ result' = FindNearestExit(s, nodes, edges, wheelchairMode, blockedEdges)
  /\ endId' = NullId
  /\ op' = "findNearestExit"
  /\ UNCHANGED << nodes, edges, wheelchairMode, blockedEdges, path, beyondCall >>

Next == CallDijkstra \/ CallFindNearestExit

Spec == Init /\ [][Next]_vars

SpecShipped == InitShipped /\ [][Next]_vars

\* The segments a hazard may block in the shipped building: the two of
\* simulateFire, and the two that lead from NODE_NC_W towards the exits.
HazardPool ==
  FireBlockedEdges \o
  << [from |-> "NODE_NC_1", to |-> "NODE_NC_NW"],
     [from |-> "NODE_NC_W", to |-> "NODE_WB_1"] >>

\* the shipped building with any of the hazard segments blocked
InitHazard ==
  /\ nodes = NODES
  /\ edges = EDGES
  /\ wheelchairMode \in BOOLEAN
  /\ \E idx \in SUBSET (1..Len(HazardPool)) : blockedEdges = SubList(HazardPool, idx, 1)
  /\ op = "none"
  /\ startId = NullId
  /\ endId = NullId
  /\ path = << >>
  /\ result = Null
  /\ BeyondCallIdle

NextHazard == CallFindNearestExit

SpecHazard == InitHazard /\ [][NextHazard]_vars

\* ids handed to dijkstra that are no ids of the node list: an unknown id
\* and the empty string
OtherIds == {"zz", ""}

\* dijkstra called with any two strings as startId and endId
CallDijkstraAnyIds ==
  /\ op = "none"
  /\ \E s \in NodeIds(nodes) \cup OtherIds, e \in NodeIds(nodes) \cup OtherIds :
        /\ startId' = s
        /\ endId' = e
        /\ result' = Dijkstra(s, e, nodes, edges, wheelchairMode, blockedEdges)
  /\ op' = "dijkstra"
  /\ UNCHANGED << nodes, edges, wheelchairMode, blockedEdges, path, beyondCall >>

NextAnyIds == CallDijkstraAnyIds

SpecAnyIds == Init /\ [][NextAnyIds]_vars

\* Inputs that strain the loop of dijkstra: g1 and g2 lie on the same point,
\* so the edge between them has length 0; the pool has an edge twice, the
\* same pair in both orders, and an edge from g2 to itself.
DegenerateNodes ==
  << [id |-> "g1", x |-> 0,   y |-> 0,   type |-> "intersection", accessible |-> TRUE],
     [id |-> "g2", x |-> 0,   y |-> 0,   type |-> "door",         accessible |-> TRUE],
     [id |-> "g3", x |-> 300, y |-> 0,   type |-> "intersection", accessible |-> TRUE],
     [id |-> "g4", x |-> 300, y |-> 400, type |-> "exit",         accessible |-> TRUE] >>

DegenerateEdgePool ==
  << [from |-> "g1", to |-> "g2", type |-> "hallway", accessible |-> TRUE],
     [from |-> "g2", to |-> "g3", type |-> "hallway", accessible |-> TRUE],
     [from |-> "g1", to |-> "g3", type |-> "hallway", accessible |-> TRUE],
     [from |-> "g1", to |-> "g3", type |-> "hallway", accessible |-> TRUE],
     [from |-> "g3", to |-> "g1", type |-> "stairs",  accessible |-> FALSE],
     [from |-> "g2", to |-> "g2", type |-> "hallway", accessible |-> TRUE],
     [from |-> "g3", to |-> "g4", type |-> "hallway", accessible |-> TRUE],
     [from |-> "g4", to |-> "g1", type |-> "ramp",    accessible |-> TRUE] >>

InitDegenerate ==
  /\ nodes = DegenerateNodes
  /\ \E idx \in SUBSET (1..Len(DegenerateEdgePool)) :
        edges = SubList(DegenerateEdgePool, idx, 1)
  /\ wheelchairMode \in BOOLEAN
  /\ blockedEdges \in { << >>, << [from |-> "g3", to |-> "g2"] >> }
  /\ op = "none"
  /\ startId = NullId
  /\ endId = NullId
  /\ path = << >>
  /\ result = Null
  /\ BeyondCallIdle

\* dijkstra up to its while loop: adj, dist, prev and visited are built
BeginDijkstra ==
  /\ op = "none"
  /\ \E s \in NodeIds(nodes), e \in NodeIds(nodes) :
        /\ startId' = s
        /\ endId' = e
        /\ loop' = InitLoop(nodes, s)
  /\ op' = "loop"
  /\ UNCHANGED << nodes, edges, wheelchairMode, blockedEdges, path, result, beyondLoop >>

\* an iteration of while (true) that does not break
IterateDijkstra ==
  /\ op = "loop"
  /\ ~LoopBreaks(SelectMin(loop), endId)
  /\ loop' = Visit(loop, BuildAdj(nodes, edges, wheelchairMode, blockedEdges),
                   SelectMin(loop))
  /\ UNCHANGED << nodes, edges, wheelchairMode, blockedEdges, op, startId, endId,
                  path, result, beyondLoop >>

\* the iteration that breaks, and the rest of dijkstra to its return
ReturnDijkstra ==
  /\ op = "loop"
  /\ LoopBreaks(SelectMin(loop), endId)
  /\ result' = DijkstraResult(loop, endId)
  /\ op' = "dijkstra"
  /\ UNCHANGED << nodes, edges, wheelchairMode, blockedEdges, startId, endId, path,
                  loop, beyondLoop >>

NextLoop == BeginDijkstra \/ IterateDijkstra \/ ReturnDijkstra

\* dijkstra is synchronous: once called it runs on until it returns. This is
\* WF_vars(IterateDijkstra \/ ReturnDijkstra) with its ENABLED written out:
\* one of the two can be taken exactly in the states with op = "loop".
LoopRunsOn ==
  \/ []<>(op # "loop")
  \/ []<><<IterateDijkstra \/ ReturnDijkstra>>_vars

SpecLoop == InitDegenerate /\ [][NextLoop]_vars /\ LoopRunsOn

\* the direction synthesizers on the nodes of DirNodes
InitDirections ==
  /\ nodes = DirNodes
  /\ edges = << >>
  /\ wheelchairMode = FALSE
  /\ blockedEdges = << >>
  /\ op = "none"
  /\ startId = NullId
  /\ endId = NullId
  /\ path = << >>
  /\ result = Null
  /\ BeyondCallIdle

CallGenerateDirections ==
  /\ op = "none"
  /\ \E p \in Paths(nodes) :
        /\ path' = p
        /\ result' = GenerateDirections(p, nodes)
  /\ op' = "generateDirections"
  /\ UNCHANGED << nodes, edges, wheelchairMode, blockedEdges, startId, endId, beyondCall >>

CallGenerateVoiceDirections ==
  /\ op = "none"
  /\ \E p \in Paths(nodes) :
        /\ path' = p
        /\ result' = GenerateVoiceDirections(p, nodes)
  /\ op' = "generateVoiceDirections"
  /\ UNCHANGED << nodes, edges, wheelchairMode, blockedEdges, startId, endId, beyondCall >>

NextDirections == CallGenerateDirections \/ CallGenerateVoiceDirections

SpecDirections == InitDirections /\ [][NextDirections]_vars

-----------------------------------------------------------------------------
(* MapView.jsx and MapView3D.jsx: the selection state machine, the         *)
(* compute-path effect and the delayed announcements of MapView3D.  A      *)
(* handler runs when no effect is due; the effect runs after the render    *)
(* in which one of its dependencies changed.                               *)

\* most callbacks of setTimeout that are pending when a handler that can
\* make the effect run is taken
MaxTimers == 1

\* the nodes that are clicked: an intersection whose nearest exit changes
\* with the fire, a stairwell no accessible edge leads to, an intersection
\* near Exit B, and an exit
ClickTargets == {"NODE_NC_3", "NODE_STAIRS_1", "NODE_SC_SE", "NODE_EXIT_A"}

\* the values of the state blockedEdges
BlockedStates == { << >>, FireBlockedEdges }

\* useState(true): voice is on, and its toggle is not exercised
voiceEnabled == TRUE

\* result.distance.toFixed(1)
ToFixed1(d) ==
  LET tenths == (d + 5) \div 10
  IN ToString(tenths \div 10) \o "." \o ToString(tenths % 10)

\* target?.label || id, with target = NODES.find(n => n.id === id)
DestinationOf(id) ==
  LET target == Lookup(NodeMap(NODES), id)
  IN IF target # Null /\ HasLabel(target) THEN target.label ELSE id

\* findNearestExit(selectedStart, NODES, EDGES, wheelchairMode, blockedEdges)
\* for every value of its arguments that the component can hold
ExitResults ==
  [wm \in BOOLEAN |-> [b \in BlockedStates |-> [s \in ClickTargets |->
     FindNearestExit(s, NODES, EDGES, wm, b)]]]

\* dijkstra(selectedStart, selectedEnd, NODES, EDGES, wheelchairMode,
\* blockedEdges) for every value of its arguments that the component can hold
PairResults ==
  [wm \in BOOLEAN |-> [b \in BlockedStates |-> [s \in ClickTargets |->
     [e \in ClickTargets |-> Dijkstra(s, e, NODES, EDGES, wm, b)]]]]

\* the value of currentPath after setCurrentPath(result.path): the list is
\* held in a record, so that it can be compared with Null
PathValue(p) == [ids |-> p]

\* the directions the component derives from a path
DirectionsOf(comp, p) ==
  IF comp = "MapView" THEN GenerateDirections(p, NODES)
  ELSE GenerateVoiceDirections(p, NODES)

\* the error of the effect when dijkstra returns null
NoPathError(comp, wm) ==
  IF ~wm THEN "No path available!"
  ELSE IF comp = "MapView"
       THEN "No accessible path available! The route may require stairs."
       ELSE "No accessible path! Route may require stairs."

\* setCurrentPath, setPathInfo and setDirections of the emergency branch
EmergencyShown(comp, r) ==
  IF r # Null
  THEN [currentPath |-> PathValue(r.path),
        pathInfo    |-> [distance    |-> ToFixed1(r.distance),
                         isRefuge    |-> r.isRefuge,
                         destination |-> DestinationOf(r.targetId)],
        directions  |-> DirectionsOf(comp, r.path)]
  ELSE [currentPath |-> Null,
        pathInfo    |-> [error |-> "No safe path available!"],
        directions  |-> << >>]

\* setCurrentPath, setPathInfo and setDirections of the branch of selectedEnd
RouteShown(comp, r, end, wm) ==
  IF r # Null
  THEN [currentPath |-> PathValue(r.path),
        pathInfo    |-> [distance    |-> ToFixed1(r.distance),
                         destination |-> DestinationOf(end)],
        directions  |-> DirectionsOf(comp, r.path)]
  ELSE [currentPath |-> Null,
        pathInfo    |-> [error |-> NoPathError(comp, wm)],
        directions  |-> << >>]

\* setCurrentPath(null); setPathInfo(null); setDirections([])
NothingShown == [currentPath |-> Null, pathInfo |-> Null, directions |-> << >>]

\* speak(text) or vibrate(type) called by a handler or by the effect itself
Said(kind, text) ==
  [kind |-> kind, text |-> text, delayed |-> FALSE, direction |-> FALSE, route |-> Null]

\* setTimeout(callback, delay): the callback speaks or vibrates text, which
\* is or is not a direction of the route the effect has just computed
Timer(delay, kind, text, direction, route) ==
  [delay |-> delay, kind |-> kind, text |-> text, direction |-> direction,
   route |-> route]

\* the callbacks the effect of MapView3D hands to setTimeout after a result
\* of findNearestExit; the second speaks only if (dirs.length > 0)
EmergencyTimers(dirs, route) ==
  IF voiceEnabled
  THEN << Timer(300, "speak", "Fire detected. Rerouting to nearest exit.", FALSE, route),
          Timer(2500, "speak", IF Len(dirs) > 0 THEN dirs[1].text ELSE NullId, TRUE, route) >>
  ELSE << >>

\* the callbacks the effect of MapView3D hands to setTimeout after a result
\* of dijkstra
RouteTimers(dirs, route, vibration) ==
  (IF voiceEnabled /\ Len(dirs) > 0
   THEN << Timer(300, "speak", dirs[1].text, TRUE, route) >> ELSE << >>)
  \o
  (IF vibration /\ Len(dirs) > 0
   THEN << Timer(300, "vibrate", dirs[1].type, TRUE, route) >> ELSE << >>)

\* if (voiceEnabled) speak(d.text); if (vibrationEnabled) vibrate(d.type)
Announce(d, vibration) ==
  (IF voiceEnabled THEN << Said("speak", d.text) >> ELSE << >>)
  \o (IF vibration THEN << Said("vibrate", d.type) >> ELSE << >>)

\* a variant of PicksEnd that does not look at emergencyMode
PicksEnd_InEmergency == selectedEnd = NullId

\* else if (!selectedEnd && !emergencyMode)
PicksEnd == selectedEnd = NullId /\ ~emergencyMode

\* a variant of FireDeclared that leaves emergencyMode off
FireDeclared_Not == FALSE

\* setEmergencyMode(true) of simulateFire
FireDeclared == TRUE

\* a variant of StepAfterRecompute that keeps the step
StepAfterRecompute_Kept == currentStep

\* setCurrentStep(0) of the effect
StepAfterRecompute == 0

\* if (currentStep < directions.length - 1)
CanStepNext == currentStep < Len(directions) - 1

\* if (currentStep > 0)
CanStepPrev == currentStep > 0

\* the three branches of handleClick and of handleNodeClick on node n;
\* startSaid and resetSaid are what MapView3D speaks
SelectNode(n, startSaid, resetSaid) ==
  IF selectedStart = NullId
  THEN /\ selectedStart' = n
       /\ effectDue' = TRUE
       /\ event' = [name |-> "click", out |-> startSaid]
       /\ UNCHANGED << selectedEnd, currentPath, pathInfo, directions, currentStep >>
  ELSE IF PicksEnd
  THEN /\ selectedEnd' = IF n # selectedStart THEN n ELSE selectedEnd
       /\ effectDue' = (n # selectedStart)
       /\ event' = [name |-> "click", out |-> << >>]
       /\ UNCHANGED << selectedStart, currentPath, pathInfo, directions, currentStep >>
  ELSE /\ selectedStart' = n
       /\ selectedEnd' = NullId
       /\ currentPath' = Null
       /\ pathInfo' = Null
       /\ directions' = << >>
       /\ currentStep' = 0
       /\ effectDue' = (n # selectedStart \/ selectedEnd # NullId)
       /\ event' = [name |-> "click", out |-> resetSaid]

\* MapView: a click within 2 m of node n
handleClick ==
  /\ component = "MapView"
  /\ ~effectDue
  /\ Len(timers) <= MaxTimers
  /\ \E n \in ClickTargets :
        IF mode = "view"
        THEN /\ event' = [name |-> "click", out |-> << >>]
             /\ UNCHANGED << selectedStart, selectedEnd, currentPath, pathInfo, directions,
                             currentStep, effectDue >>
        ELSE SelectNode(n, << >>, << >>)
  /\ UNCHANGED << nodes, edges, wheelchairMode, blockedEdges, callVars, component, mode,
                  emergencyMode, vibrationEnabled, timers, appVars >>

\* MapView3D: handleMouseUp without a drag, the ray hits the mesh of node n
handleNodeClick ==
  /\ component = "MapView3D"
  /\ ~effectDue
  /\ Len(timers) <= MaxTimers
  /\ \E n \in ClickTargets :
        IF mode # "navigate"
        THEN /\ event' = [name |-> "click", out |-> << >>]
             /\ UNCHANGED << selectedStart, selectedEnd, currentPath, pathInfo, directions,
                             currentStep, effectDue >>
        ELSE SelectNode(n,
                        IF voiceEnabled THEN << Said("speak", "Starting point set.") >>
                        ELSE << >>,
                        IF voiceEnabled THEN << Said("speak", "New starting point set.") >>
                        ELSE << >>)
  /\ UNCHANGED << nodes, edges, wheelchairMode, blockedEdges, callVars, component, mode,
                  emergencyMode, vibrationEnabled, timers, appVars >>

\* the array literal of setBlockedEdges is a new object, so the effect runs
simulateFire ==
  /\ component \in {"MapView", "MapView3D"}
  /\ ~effectDue
  /\ Len(timers) <= MaxTimers
  /\ blockedEdges' = FireBlockedEdges
  /\ emergencyMode' = FireDeclared
  /\ effectDue' = TRUE
  /\ event' = [name |-> "simulateFire", out |-> << >>]
  /\ UNCHANGED << nodes, edges, wheelchairMode, callVars, component, mode, selectedStart,
                  selectedEnd, currentPath, pathInfo, directions, currentStep,
                  vibrationEnabled, timers, appVars >>

\* MapView3D also calls speechSynthesis.cancel() and stopVibration()
clearAll ==
  /\ component \in {"MapView", "MapView3D"}
  /\ ~effectDue
  /\ Len(timers) <= MaxTimers
  /\ blockedEdges' = << >>
  /\ emergencyMode' = FALSE
  /\ selectedStart' = NullId
  /\ selectedEnd' = NullId
  /\ currentPath' = Null
  /\ pathInfo' = Null
  /\ directions' = << >>
  /\ currentStep' = 0
  /\ effectDue' = TRUE
  /\ event' = [name |-> "clearAll",
               out  |-> IF component = "MapView3D"
                        THEN << Said("cancel", NullId), Said("stopVibration", NullId) >>
                        ELSE << >>]
  /\ UNCHANGED << nodes, edges, wheelchairMode, callVars, component, mode,
                  vibrationEnabled, timers, appVars >>

\* the compute-path effect
ComputePath ==
  /\ component \in {"MapView", "MapView3D"}
  /\ effectDue
  /\ LET voiced == component = "MapView3D"
         branch == IF mode = "view" \/ selectedStart = NullId THEN "clear"
                   ELSE IF emergencyMode THEN "emergency"
                   ELSE IF selectedEnd # NullId THEN "route"
                   ELSE "none"
         r      == IF branch = "emergency"
                   THEN ExitResults[wheelchairMode][blockedEdges][selectedStart]
                   ELSE IF branch = "route"
                   THEN PairResults[wheelchairMode][blockedEdges][selectedStart][selectedEnd]
                   ELSE Null
         shown  == IF branch = "clear" THEN NothingShown
                   ELSE IF branch = "emergency" THEN EmergencyShown(component, r)
                   ELSE IF branch = "route"
                   THEN RouteShown(component, r, selectedEnd, wheelchairMode)
                   ELSE [currentPath |-> currentPath, pathInfo |-> pathInfo,
                         directions |-> directions]
     IN /\ currentPath' = shown.currentPath
        /\ pathInfo' = shown.pathInfo
        /\ directions' = shown.directions
        /\ currentStep' = IF voiced /\ branch # "none" THEN StepAfterRecompute
                          ELSE currentStep
        /\ timers' = IF ~voiced \/ r = Null THEN timers
                     ELSE IF branch = "emergency"
                     THEN timers \o EmergencyTimers(shown.directions, shown.currentPath)
                     ELSE timers \o RouteTimers(shown.directions, shown.currentPath, vibrationEnabled)
        /\ event' =
             [name |-> "effect",
              out  |-> IF ~voiced \/ branch \in {"clear", "none"} THEN << >>
                       ELSE IF branch = "emergency"
                       THEN (IF r = Null /\ voiceEnabled
                             THEN << Said("speak", "No safe path available.") >> ELSE << >>)
                            \o (IF vibrationEnabled
                                THEN << Said("vibrate", "emergency") >> ELSE << >>)
                       ELSE IF r = Null /\ voiceEnabled
                            THEN << Said("speak", "No path available.") >> ELSE << >>]
  /\ effectDue' = FALSE
  /\ UNCHANGED << nodes, edges, wheelchairMode, blockedEdges, callVars, component, mode,
                  selectedStart, selectedEnd, emergencyMode, vibrationEnabled, appVars >>

handleNextStep ==
  /\ component = "MapView3D"
  /\ ~effectDue
  /\ IF CanStepNext
     THEN /\ currentStep' = currentStep + 1
          /\ event' = [name |-> "next",
                       out  |-> Announce(directions[currentStep + 2], vibrationEnabled)]
     ELSE /\ currentStep' = currentStep
          /\ event' = [name |-> "next", out |-> << >>]
  /\ UNCHANGED << nodes, edges, wheelchairMode, blockedEdges, callVars, component, mode,
                  selectedStart, selectedEnd, currentPath, pathInfo, directions,
                  emergencyMode, vibrationEnabled, effectDue, timers, appVars >>

handlePrevStep ==
  /\ component = "MapView3D"
  /\ ~effectDue
  /\ IF CanStepPrev
     THEN /\ currentStep' = currentStep - 1
          /\ event' = [name |-> "prev",
                       out  |-> Announce(directions[currentStep], vibrationEnabled)]
     ELSE /\ currentStep' = currentStep
          /\ event' = [name |-> "prev", out |-> << >>]
  /\ UNCHANGED << nodes, edges, wheelchairMode, blockedEdges, callVars, component, mode,
                  selectedStart, selectedEnd, currentPath, pathInfo, directions,
                  emergencyMode, vibrationEnabled, effectDue, timers, appVars >>

\* a callback may run before another one that was handed to setTimeout
\* earlier only if its delay is shorter
MayRun(i) == \A j \in 1..(i - 1) : timers[j].delay > timers[i].delay

\* a callback of setTimeout runs; nothing in the component calls clearTimeout
TimerRuns ==
  /\ component = "MapView3D"
  /\ ~effectDue
  /\ \E i \in 1..Len(timers) :
        /\ MayRun(i)
        /\ timers' = SubSeq(timers, 1, i - 1) \o SubSeq(timers, i + 1, Len(timers))
        /\ event' = [name |-> "timer",
                     out  |-> IF timers[i].text = NullId THEN << >>
                              ELSE << [kind      |-> timers[i].kind,
                                       text      |-> timers[i].text,
                                       delayed   |-> TRUE,
                                       direction |-> timers[i].direction,
                                       route     |-> timers[i].route] >>]
  /\ UNCHANGED << nodes, edges, wheelchairMode, blockedEdges, callVars, component, mode,
                  selectedStart, selectedEnd, currentPath, pathInfo, directions,
                  currentStep, emergencyMode, vibrationEnabled, effectDue, appVars >>

\* the component after its mount: the effect has run once and cleared what
\* was empty; wheelchairMode and vibrationEnabled come from the profile
InitMap ==
  /\ nodes = NODES
  /\ edges = EDGES
  /\ wheelchairMode \in BOOLEAN
  /\ blockedEdges = << >>
  /\ op = "none"
  /\ startId = NullId
  /\ endId = NullId
  /\ path = << >>
  /\ result = Null
  /\ LoopIdle
  /\ component \in {"MapView", "MapView3D"}
  /\ mode \in {"navigate", "view"}
  /\ selectedStart = NullId
  /\ selectedEnd = NullId
  /\ currentPath = Null
  /\ pathInfo = Null
  /\ directions = << >>
  /\ currentStep = 0
  /\ emergencyMode = FALSE
  /\ vibrationEnabled \in (IF component = "MapView3D" THEN BOOLEAN ELSE {FALSE})
  /\ effectDue = FALSE
  /\ timers = << >>
  /\ event = [name |-> "mount", out |-> << >>]
  /\ AppUnmounted

NextMap ==
  \/ handleClick
  \/ handleNodeClick
  \/ simulateFire
  \/ clearAll
  \/ ComputePath
  \/ handleNextStep
  \/ handlePrevStep
  \/ TimerRuns

SpecMap == InitMap /\ [][NextMap]_vars

-----------------------------------------------------------------------------
(* unnamed/part_001 (and App.jsx, which lacks the settings page): the      *)
(* pages of App, the callback of onAuthStateChanged and the asynchronous   *)
(* handlers.  A handler runs up to its first await; every awaited          *)
(* operation completes in a later step, with success or with failure.      *)
(* Firebase calls the callback when the signed-in user changes.            *)

\* most operations that are awaited when a handler starts another one
MaxAsync == 2

\* the accounts
Users == {"u1"}

\* profileDoc.data() of the document of user u, and the profile of handleSignup
StoredProfile(u) == [owner |-> u, edited |-> FALSE]

\* { ...prev, name: updates.name, disabilities: updates.disabilities }
EditedProfile(prev) ==
  [owner |-> IF prev = Null THEN NullId ELSE prev.owner, edited |-> TRUE]

\* an awaited operation started for user u
Awaited(kind, u) == [kind |-> kind, user |-> u]

\* the callback of onAuthStateChanged up to its await, called with user while
\* waits are the operations awaited
AuthCallback(user, waits) ==
  IF user # NullId
  THEN /\ currentUser' = user
       /\ pending' = waits \cup {Awaited("callbackFetch", user)}
       /\ authState' = "in"
       /\ UNCHANGED << userProfile, currentPage >>
  ELSE /\ currentUser' = NullId
       /\ userProfile' = Null
       /\ currentPage' = "welcome"
       /\ pending' = waits
       /\ authState' = "out"

\* the awaited operation w is over and changed nothing
Dropped(w) ==
  /\ pending' = pending \ {w}
  /\ UNCHANGED << currentPage, currentUser, userProfile, authState >>

\* onNavigate and onBack of the pages: the page p that page q leads to
Leads(q, p) ==
  \/ q = "welcome"  /\ p \in {"signup", "login"}
  \/ q = "signup"   /\ p \in {"welcome", "login"}
  \/ q = "login"    /\ p \in {"welcome", "signup"}
  \/ q = "main"     /\ p = "settings" /\ currentUser # NullId
  \/ q = "settings" /\ p = "main" /\ currentUser # NullId

\* the first call of the callback after the subscription, with the user of
\* the persisted session or with null
authRestored ==
  /\ currentPage # "none"
  /\ authState = "unknown"
  /\ \E user \in Users \cup {NullId} : AuthCallback(user, pending)
  /\ UNCHANGED << nodes, edges, wheelchairMode, blockedEdges, callVars, mapVars >>

\* the rest of the callback after await getDoc
callbackFetched ==
  /\ \E w \in pending, exists \in BOOLEAN :
        /\ w.kind = "callbackFetch"
        /\ userProfile' = IF exists THEN StoredProfile(w.user) ELSE userProfile
        /\ currentPage' = "main"
        /\ pending' = pending \ {w}
  /\ UNCHANGED << currentUser, authState >>
  /\ UNCHANGED << nodes, edges, wheelchairMode, blockedEdges, callVars, mapVars >>

navigate ==
  /\ \E p \in {"welcome", "signup", "login", "main", "settings"} :
        /\ Leads(currentPage, p)
        /\ currentPage' = p
  /\ UNCHANGED << currentUser, userProfile, authState, pending >>
  /\ UNCHANGED << nodes, edges, wheelchairMode, blockedEdges, callVars, mapVars >>

\* handleLogin up to await signInWithEmailAndPassword
handleLogin ==
  /\ currentPage = "login"
  /\ Cardinality(pending) < MaxAsync
  /\ \E u \in Users : pending' = pending \cup {Awaited("signIn", u)}
  /\ UNCHANGED << currentPage, currentUser, userProfile, authState >>
  /\ UNCHANGED << nodes, edges, wheelchairMode, blockedEdges, callVars, mapVars >>

\* signInWithEmailAndPassword is over: on success the callback is called if
\* the user changed, and handleLogin goes on to await getDoc
signInResolved ==
  /\ \E w \in pending, ok \in BOOLEAN :
        /\ w.kind = "signIn"
        /\ IF ~ok THEN Dropped(w)
           ELSE IF authState = "in"
           THEN /\ pending' = (pending \ {w}) \cup {Awaited("loginFetch", w.user)}
                /\ UNCHANGED << currentPage, currentUser, userProfile, authState >>
           ELSE AuthCallback(w.user, (pending \ {w}) \cup {Awaited("loginFetch", w.user)})
  /\ UNCHANGED << nodes, edges, wheelchairMode, blockedEdges, callVars, mapVars >>

\* the rest of handleLogin after await getDoc
loginFetched ==
  /\ \E w \in pending, outcome \in {"exists", "missing", "error"} :
        /\ w.kind = "loginFetch"
        /\ IF outcome = "error" THEN Dropped(w)
           ELSE /\ userProfile' = IF outcome = "exists" THEN StoredProfile(w.user)
                                  ELSE userProfile
                /\ currentPage' = "main"
                /\ pending' = pending \ {w}
                /\ UNCHANGED << currentUser, authState >>
  /\ UNCHANGED << nodes, edges, wheelchairMode, blockedEdges, callVars, mapVars >>

\* handleSignup up to await createUserWithEmailAndPassword
handleSignup ==
  /\ currentPage = "signup"
  /\ Cardinality(pending) < MaxAsync
  /\ \E u \in Users : pending' = pending \cup {Awaited("createUser", u)}
  /\ UNCHANGED << currentPage, currentUser, userProfile, authState >>
  /\ UNCHANGED << nodes, edges, wheelchairMode, blockedEdges, callVars, mapVars >>

\* createUserWithEmailAndPassword is over: on success the new user is signed
\* in, and handleSignup goes on to await setDoc
createUserResolved ==
  /\ \E w \in pending, ok \in BOOLEAN :
        /\ w.kind = "createUser"
        /\ IF ~ok \/ authState = "in" THEN Dropped(w)
           ELSE AuthCallback(w.user, (pending \ {w}) \cup {Awaited("setDoc", w.user)})
  /\ UNCHANGED << nodes, edges, wheelchairMode, blockedEdges, callVars, mapVars >>

\* the rest of handleSignup after await setDoc
signupStored ==
  /\ \E w \in pending, ok \in BOOLEAN :
        /\ w.kind = "setDoc"
        /\ IF ~ok THEN Dropped(w)
           ELSE /\ userProfile' = StoredProfile(w.user)
                /\ currentPage' = "main"
                /\ pending' = pending \ {w}
                /\ UNCHANGED << currentUser, authState >>
  /\ UNCHANGED << nodes, edges, wheelchairMode, blockedEdges, callVars, mapVars >>

\* handleSaveSettings up to await updateDoc
handleSaveSettings ==
  /\ currentPage = "settings"
  /\ currentUser # NullId
  /\ Cardinality(pending) < MaxAsync
  /\ pending' = pending \cup {Awaited("updateDoc", currentUser)}
  /\ UNCHANGED << currentPage, currentUser, userProfile, authState >>
  /\ UNCHANGED << nodes, edges, wheelchairMode, blockedEdges, callVars, mapVars >>

\* the rest of handleSaveSettings after await updateDoc
settingsSaved ==
  /\ \E w \in pending, ok \in BOOLEAN :
        /\ w.kind = "updateDoc"
        /\ IF ~ok THEN Dropped(w)
           ELSE /\ userProfile' = EditedProfile(userProfile)
                /\ pending' = pending \ {w}
                /\ UNCHANGED << currentPage, currentUser, authState >>
  /\ UNCHANGED << nodes, edges, wheelchairMode, blockedEdges, callVars, mapVars >>

\* handleLogout up to await signOut; the button is on the main screen and
\* on the settings page, which are rendered only with a currentUser
handleLogout ==
  /\ currentPage \in {"main", "settings"}
  /\ currentUser # NullId
  /\ Cardinality(pending) < MaxAsync
  /\ pending' = pending \cup {Awaited("signOut", currentUser)}
  /\ UNCHANGED << currentPage, currentUser, userProfile, authState >>
  /\ UNCHANGED << nodes, edges, wheelchairMode, blockedEdges, callVars, mapVars >>

\* signOut is over: on success the callback is called with null if a user
\* was signed in
signOutResolved ==
  /\ \E w \in pending, ok \in BOOLEAN :
        /\ w.kind = "signOut"
        /\ IF ~ok \/ authState # "in" THEN Dropped(w)
           ELSE AuthCallback(NullId, pending \ {w})
  /\ UNCHANGED << nodes, edges, wheelchairMode, blockedEdges, callVars, mapVars >>

\* App after its mount, before the first call of the callback
InitApp ==
  /\ nodes = NODES
  /\ edges = EDGES
  /\ wheelchairMode = FALSE
  /\ blockedEdges = << >>
  /\ op = "none"
  /\ startId = NullId
  /\ endId = NullId
  /\ path = << >>
  /\ result = Null
  /\ LoopIdle
  /\ MapUnmounted
  /\ currentPage = "loading"
  /\ currentUser = NullId
  /\ userProfile = Null
  /\ authState = "unknown"
  /\ pending = {}

NextApp ==
  \/ authRestored
  \/ callbackFetched
  \/ navigate
  \/ handleLogin
  \/ signInResolved
  \/ loginFetched
  \/ handleSignup
  \/ createUserResolved
  \/ signupStored
  \/ handleSaveSettings
  \/ settingsSaved
  \/ handleLogout
  \/ signOutResolved

SpecApp == InitApp /\ [][NextApp]_vars

-----------------------------------------------------------------------------
(* What the claims speak of, stated on the inputs of the query and not on  *)
(* the adjacency list that dijkstra builds.                                *)

\* the ids of the nodes of the given type
NodesOfType(type) == { nodes[i].id : i \in { j \in 1..Len(nodes) : nodes[j].type = type } }

\* edge e takes part in routing: not blocked in either direction,
\* accessible in wheelchair mode, both endpoints nodes of the list
Usable(e) ==
  /\ ~(wheelchairMode /\ ~e.accessible)
  /\ \A k \in 1..Len(blockedEdges) :
        /\ ~(blockedEdges[k].from = e.from /\ blockedEdges[k].to = e.to)
        /\ ~(blockedEdges[k].from = e.to /\ blockedEdges[k].to = e.from)
  /\ e.from \in NodeIds(nodes)
  /\ e.to \in NodeIds(nodes)

\* e joins u and v, in either direction
Joins(e, u, v) == (e.from = u /\ e.to = v) \/ (e.from = v /\ e.to = u)

\* u and v are joined by an edge of the filtered graph
Linked(u, v) == \E i \in 1..Len(edges) : Joins(edges[i], u, v) /\ Usable(edges[i])

\* the Euclidean length of the hop from u to v
HopLen(u, v) ==
  LET nu == CHOOSE n \in { nodes[i] : i \in 1..Len(nodes) } : n.id = u
      nv == CHOOSE n \in { nodes[i] : i \in 1..Len(nodes) } : n.id = v
  IN EuclidDist(nu, nv)

\* the sum of the hop lengths of a path
RECURSIVE PathLen(_)
PathLen(p) ==
  IF Len(p) < 2 THEN 0 ELSE HopLen(p[1], p[2]) + PathLen(Tail(p))

Least(S) == CHOOSE x \in S : \A y \in S : x <= y

\* the least total weight of a simple path of the filtered graph from u to t
\* that avoids the nodes in seen; Infinity when there is none
RECURSIVE LeastFrom(_, _, _)
LeastFrom(u, t, seen) ==
  IF u = t THEN 0
  ELSE LET totals == { HopLen(u, v) + LeastFrom(v, t, seen \cup {v}) :
                         v \in { w \in NodeIds(nodes) \ seen : Linked(u, w) } }
           finite == { x \in totals : x < Infinity }
       IN IF finite = {} THEN Infinity ELSE Least(finite)

MinPathWeight(s, t) == LeastFrom(s, t, {s})

Reachable(s, t) == MinPathWeight(s, t) < Infinity

\* the least distance from s to a node of the set targets; Infinity when
\* none is reachable
NearestDistance(s, targets) ==
  LET ds == { MinPathWeight(s, t) : t \in targets } \cup {Infinity}
  IN Least(ds)

\* no usable edge joins n to another node
Isolated(n) == \A v \in NodeIds(nodes) \ {n} : ~Linked(n, v)

Queried == op \in {"dijkstra", "findNearestExit"}

\* the nodes that the usable edges (given by their positions U in the edge
\* list) join to a node of S, together with S, closed under repetition
RECURSIVE ReachVia(_, _)
ReachVia(U, S) ==
  LET T == S \cup { edges[i].to : i \in { j \in U : edges[j].from \in S } }
             \cup { edges[i].from : i \in { j \in U : edges[j].to \in S } }
  IN IF T = S THEN S ELSE ReachVia(U, T)

\* the nodes reachable from s over usable edges
ReachSet(s) ==
  LET U == { i \in 1..Len(edges) : Usable(edges[i]) }
  IN IF Evaluated(U) THEN ReachVia(U, {s}) ELSE {}

\* the node of the list with the given id
NodeOf(id) == CHOOSE n \in { nodes[i] : i \in 1..Len(nodes) } : n.id = id

\* the cross product, in square centimetres, of the hop into the k-th node
\* of path (counted from 1) with the hop out of it
CrossAt(k) ==
  LET a == NodeOf(path[k - 1])
      b == NodeOf(path[k])
      c == NodeOf(path[k + 1])
  IN (b.x - a.x) * (c.y - b.y) - (b.y - a.y) * (c.x - b.x)

\* the dot product of the same two hops
DotAt(k) ==
  LET a == NodeOf(path[k - 1])
      b == NodeOf(path[k])
      c == NodeOf(path[k + 1])
  IN (b.x - a.x) * (c.x - b.x) + (b.y - a.y) * (c.y - b.y)

\* the positions of the interior nodes of path
Interior == 2..(Len(path) - 1)

\* left, right or none: the turn that the claims ascribe to a cross product
TurnAt(k) ==
  IF CrossAt(k) > 5000 THEN "left" ELSE IF CrossAt(k) < 0 - 5000 THEN "right" ELSE "none"

\* the types whose nodes are announced by an advisory phrase
AdvisoryTypes == {"elevator", "stairs", "ramp", "refuge"}

\* the advisory phrase of each of these types
AdvisoryPhrase ==
  [t \in AdvisoryTypes |->
     IF t = "elevator" THEN "Take the elevator."
     ELSE IF t = "stairs" THEN "Use the stairwell."
     ELSE IF t = "ramp" THEN "Use the ramp."
     ELSE "Proceed to the refuge area. Help is on the way."]

Synthesized == op \in {"generateDirections", "generateVoiceDirections"}

\* p has u and v as consecutive nodes, in either order
HasHop(p, u, v) ==
  \E k \in 1..(Len(p) - 1) : (p[k] = u /\ p[k + 1] = v) \/ (p[k] = v /\ p[k + 1] = u)

-----------------------------------------------------------------------------
(* The claims.                                                             *)

\* C1: whenever a path from startId to endId exists in the filtered graph,
\* dijkstra returns a result whose distance is the least total weight of a
\* simple path of that graph from startId to endId.
C1_ShortestDistance ==
  (op = "dijkstra" /\ Reachable(startId, endId)) =>
     (result # Null /\ result.distance = MinPathWeight(startId, endId))

\* a query with two routes of different length: n1-n4-n2 (6 m) is returned
\* although n1-n3-n2 (10 m) is usable too
C1_Witness ==
  /\ op = "dijkstra" /\ startId = "n1" /\ endId = "n2"
  /\ Linked("n1", "n3") /\ Linked("n3", "n2")
  /\ result # Null /\ result.path = << "n1", "n4", "n2" >> /\ result.distance = 600

\* C2: in wheelchair mode every hop of a returned path is backed by at
\* least one edge with accessible = TRUE.
C2_AccessibleHops ==
  (Queried /\ wheelchairMode /\ result # Null) =>
     \A k \in 1..(Len(result.path) - 1) :
        \E i \in 1..Len(edges) :
           Joins(edges[i], result.path[k], result.path[k + 1]) /\ edges[i].accessible

\* wheelchair mode, the stairs n1-n3 are in the edge list, and the route
\* to n3 goes the long way round
C2_Witness ==
  /\ op = "dijkstra" /\ wheelchairMode /\ startId = "n1" /\ endId = "n3"
  /\ \E i \in 1..Len(edges) : Joins(edges[i], "n1", "n3") /\ ~edges[i].accessible
  /\ result # Null /\ result.path = << "n1", "n4", "n2", "n3" >>

\* C3: no returned path has consecutive nodes (u, v) with {from: u, to: v}
\* or {from: v, to: u} in blockedEdges, in either mode.
C3_NoBlockedHop ==
  (Queried /\ result # Null) =>
     \A k \in 1..(Len(result.path) - 1) :
        \A b \in 1..Len(blockedEdges) :
           ~Joins(blockedEdges[b], result.path[k], result.path[k + 1])

\* the edge n1-n4 is in the list and blocked as (n4, n1); the route from n1
\* to n4 avoids it
C3_Witness ==
  /\ op = "dijkstra" /\ startId = "n1" /\ endId = "n4"
  /\ \E i \in 1..Len(edges) : edges[i].from = "n1" /\ edges[i].to = "n4"
  /\ \E b \in 1..Len(blockedEdges) : blockedEdges[b].from = "n4" /\ blockedEdges[b].to = "n1"
  /\ result # Null /\ Len(result.path) = 4

\* C4: whenever an exit is reachable from startId, findNearestExit returns
\* an exit (isRefuge = FALSE) at the least distance over all exits.
C4_NearestExit ==
  (op = "findNearestExit" /\ \E x \in NodesOfType("exit") : Reachable(startId, x)) =>
     /\ result # Null
     /\ result.isRefuge = FALSE
     /\ result.targetId \in NodesOfType("exit")
     /\ result.distance = NearestDistance(startId, NodesOfType("exit"))

\* both exits are reachable from n1 and the second one of the node list is
\* the nearer
C4_Witness ==
  /\ op = "findNearestExit" /\ startId = "n1"
  /\ Reachable("n1", "n2") /\ MinPathWeight("n1", "n4") < MinPathWeight("n1", "n2")
  /\ result # Null /\ result.targetId = "n4" /\ result.distance = 300

\* C5: in wheelchair mode findNearestExit returns the nearest refuge
\* (isRefuge = TRUE) when no exit but a refuge is reachable, null when
\* neither is, and never a refuge while an exit is reachable.
C5_RefugeFallback ==
  (op = "findNearestExit" /\ wheelchairMode) =>
     LET exitNear   == NearestDistance(startId, NodesOfType("exit"))
         refugeNear == NearestDistance(startId, NodesOfType("refuge"))
     IN /\ (exitNear = Infinity /\ refugeNear < Infinity) =>
              /\ result # Null
              /\ result.isRefuge = TRUE
              /\ result.targetId \in NodesOfType("refuge")
              /\ result.distance = refugeNear
        /\ (exitNear = Infinity /\ refugeNear = Infinity) => result = Null
        /\ exitNear < Infinity => (result # Null /\ result.isRefuge = FALSE)

\* wheelchair mode, no exit reachable from n1, both refuges reachable, the
\* nearer one returned
C5_Witness ==
  /\ op = "findNearestExit" /\ wheelchairMode /\ startId = "n1"
  /\ \A x \in NodesOfType("exit") : ~Reachable("n1", x)
  /\ Reachable("n1", "n5")
  /\ result # Null /\ result.isRefuge = TRUE /\ result.targetId = "n3"

\* C6: without wheelchair mode findNearestExit returns an exit or null,
\* never a refuge.
C6_NoRefugeWithoutWheelchair ==
  (op = "findNearestExit" /\ ~wheelchairMode) =>
     \/ result = Null
     \/ (result.isRefuge = FALSE /\ result.targetId \in NodesOfType("exit"))

\* no wheelchair mode, a refuge is reachable from n1, no exit is: null
C6_Witness ==
  /\ op = "findNearestExit" /\ ~wheelchairMode /\ startId = "n1"
  /\ Reachable("n1", "n3")
  /\ \A x \in NodesOfType("exit") : ~Reachable("n1", x)
  /\ result = Null

\* C7: dijkstra(s, s) returns the path [s] with distance 0.
C7_StartIsEnd ==
  (op = "dijkstra" /\ startId = endId) =>
     result = [path |-> << startId >>, distance |-> 0]

\* s = n1 has edges in the list, none of them usable
C7_Witness ==
  /\ op = "dijkstra" /\ startId = "n1" /\ endId = "n1"
  /\ \E i \in 1..Len(edges) : edges[i].from = "n1" \/ edges[i].to = "n1"
  /\ Isolated("n1")
  /\ result # Null /\ result.distance = 0

\* C8: a query between a node without usable edges and any other node
\* returns null.
C8_IsolatedNotFound ==
  (op = "dijkstra" /\ startId # endId /\ (Isolated(startId) \/ Isolated(endId))) =>
     result = Null

\* the edge n1-n4 is in the list, yet no usable edge reaches n4, while n1
\* still has usable edges
C8_Witness ==
  /\ op = "dijkstra" /\ startId = "n1" /\ endId = "n4"
  /\ \E i \in 1..Len(edges) : edges[i].from = "n1" /\ edges[i].to = "n4"
  /\ Isolated("n4") /\ ~Isolated("n1")
  /\ result = Null

\* C9: a non-null result of dijkstra has a path from startId to endId with
\* no node twice, every hop an edge of the filtered graph, and a distance
\* equal to the sum of the hop weights.
C9_PathWellFormed ==
  (op = "dijkstra" /\ result # Null) =>
     LET p == result.path
     IN /\ Len(p) >= 1
        /\ p[1] = startId
        /\ p[Len(p)] = endId
        /\ \A i, j \in 1..Len(p) : i # j => p[i] # p[j]
        /\ \A k \in 1..(Len(p) - 1) : Linked(p[k], p[k + 1])
        /\ result.distance = PathLen(p)

\* a returned path of three hops
C9_Witness ==
  /\ op = "dijkstra" /\ result # Null
  /\ Len(result.path) = 4 /\ result.path[1] # result.path[4]
  /\ result.distance = 1100

\* the three tied routes from NODE_NC_W to NODE_SC_SE
EastRoute ==
  << "NODE_NC_W", "NODE_NC_1", "NODE_NC_NW", "NODE_NC_2", "NODE_NC_C", "NODE_NC_3",
     "NODE_NC_E", "NODE_EW_MID", "NODE_SC_E", "NODE_SC_SE" >>
CentreRoute ==
  << "NODE_NC_W", "NODE_NC_1", "NODE_NC_NW", "NODE_NC_2", "NODE_NC_C", "NODE_SC_C",
     "NODE_SC_3", "NODE_SC_4", "NODE_SC_E", "NODE_SC_SE" >>
WestRoute ==
  << "NODE_NC_W", "NODE_WB_1", "NODE_WB_2", "NODE_SC_W", "NODE_SC_1", "NODE_SC_2",
     "NODE_SC_C", "NODE_SC_3", "NODE_SC_4", "NODE_SC_E", "NODE_SC_SE" >>

ShippedScenario ==
  /\ op = "dijkstra" /\ ~wheelchairMode /\ blockedEdges = << >>
  /\ startId = "NODE_NC_W" /\ endId = "NODE_SC_SE"

\* C10: on the shipped graph, without wheelchair mode or blocked edges,
\* dijkstra(NODE_NC_W, NODE_SC_SE) returns a path ending NODE_NC_E,
\* NODE_EW_MID, NODE_SC_E, NODE_SC_SE whose distance is the sum of its
\* segment lengths, the same as that of the west and the centre route.
C10_EastWing ==
  ShippedScenario =>
     /\ result # Null
     /\ Len(result.path) >= 4
     /\ SubSeq(result.path, Len(result.path) - 3, Len(result.path)) =
           << "NODE_NC_E", "NODE_EW_MID", "NODE_SC_E", "NODE_SC_SE" >>
     /\ result.distance = PathLen(result.path)
     /\ PathLen(WestRoute) = result.distance
     /\ PathLen(CentreRoute) = result.distance

C10_Witness ==
  ShippedScenario /\ result # Null /\ result.path = EastRoute /\ result.distance = 5400

\* C11: on the shipped graph in wheelchair mode, findNearestExit from
\* NODE_NC_W never returns a path over one of the two stairs edges, for every
\* blocked set; and when no exit is reachable over accessible unblocked edges
\* while a refuge is, it returns a reachable refuge with isRefuge = TRUE.
C11_ShippedWheelchair ==
  (op = "findNearestExit" /\ wheelchairMode /\ startId = "NODE_NC_W") =>
     LET reach == ReachSet(startId)
     IN /\ result # Null =>
              /\ ~HasHop(result.path, "NODE_DOOR_STAIRS1", "NODE_STAIRS_1")
              /\ ~HasHop(result.path, "NODE_SE_MID", "NODE_STAIRS_2")
        /\ (reach \cap NodesOfType("exit") = {} /\ reach \cap NodesOfType("refuge") # {}) =>
              /\ result # Null
              /\ result.isRefuge = TRUE
              /\ result.targetId \in reach \cap NodesOfType("refuge")
              /\ result.path[Len(result.path)] = result.targetId

\* both ways from NODE_NC_W towards the exits are blocked: the refuge behind
\* NODE_NC_1 is returned
C11_Witness ==
  /\ op = "findNearestExit" /\ wheelchairMode /\ startId = "NODE_NC_W"
  /\ ReachSet("NODE_NC_W") \cap NodesOfType("exit") = {}
  /\ result # Null /\ result.isRefuge = TRUE
  /\ result.path = << "NODE_NC_W", "NODE_NC_1", "NODE_DOOR_REFUGE1", "NODE_REFUGE_1" >>

\* C12: on the shipped graph with the two segments of the demo fire
\* blocked, findNearestExit from NODE_NC_1 returns, in either mode, null or
\* a path from NODE_NC_1 to an exit in which neither blocked segment appears
\* as a consecutive pair in either direction.
C12_FireDetour ==
  (op = "findNearestExit" /\ blockedEdges = FireBlockedEdges /\ startId = "NODE_NC_1") =>
     \/ result = Null
     \/ /\ result.isRefuge = FALSE
        /\ result.targetId \in NodesOfType("exit")
        /\ result.path[1] = "NODE_NC_1"
        /\ result.path[Len(result.path)] = result.targetId
        /\ ~HasHop(result.path, "NODE_NC_3", "NODE_NC_E")
        /\ ~HasHop(result.path, "NODE_NC_E", "NODE_EW_MID")

\* the fire is burning and the route from NODE_NC_1 leaves by Exit C
C12_Witness ==
  /\ op = "findNearestExit" /\ blockedEdges = FireBlockedEdges /\ startId = "NODE_NC_1"
  /\ result # Null
  /\ result.path = << "NODE_NC_1", "NODE_NC_NW", "NODE_NW_MID", "NODE_EXIT_C" >>

\* C13: at every interior path node generateDirections gives the type left
\* exactly when cross > 0.5, right exactly when cross < -0.5 and straight
\* otherwise; generateVoiceDirections gives left and right in the same cases
\* and straight or special otherwise, also at |cross| = 0.5 and at a
\* near-reversal; the two agree on left, right or no turn.
C13_TurnClassification ==
  /\ op = "generateDirections" =>
        \A k \in Interior :
           /\ result[k - 1].type =
                 (IF TurnAt(k) = "none" THEN "straight" ELSE TurnAt(k))
           /\ LET voice == GenerateVoiceDirections(path, nodes)[k].type
              IN IF result[k - 1].type \in {"left", "right"}
                 THEN voice = result[k - 1].type
                 ELSE voice \in {"straight", "special"}
  /\ op = "generateVoiceDirections" =>
        \A k \in Interior :
           IF TurnAt(k) = "none"
           THEN result[k].type \in {"straight", "special"}
           ELSE result[k].type = TurnAt(k)

\* a path whose interior node has cross = 0.5 exactly: no turn
C13_Witness ==
  /\ op = "generateDirections"
  /\ path = << "NODE_A", "NODE_LIFT", "NODE_RAMP" >>
  /\ CrossAt(2) = 5000
  /\ result[1].type = "straight"

\* C14: in generateVoiceDirections the step of an interior node of type
\* elevator, stairs, ramp or refuge has that type's advisory phrase as text
\* whatever the turn, and the type left or right at a left or right turn and
\* special otherwise; no step of a node of another type has type special.
C14_SpecialNodes ==
  op = "generateVoiceDirections" =>
     /\ \A k \in Interior :
           NodeOf(path[k]).type \in AdvisoryTypes =>
              /\ result[k].text = AdvisoryPhrase[NodeOf(path[k]).type]
              /\ result[k].type = (IF TurnAt(k) = "none" THEN "special" ELSE TurnAt(k))
     /\ \A j \in 1..Len(result) :
           result[j].type = "special" => NodeOf(result[j].nodeId).type \in AdvisoryTypes

\* a left turn at the elevator: the phrase of the elevator, the type left
C14_Witness ==
  /\ op = "generateVoiceDirections"
  /\ path = << "NODE_A", "NODE_LIFT", "NODE_REFUGE_1" >>
  /\ result[2] = [text |-> "Take the elevator.", nodeId |-> "NODE_LIFT", type |-> "left"]

\* the arrival phrase of generateVoiceDirections for a final node n
ArrivalPhrase(n) ==
  LET label == IF "label" \in DOMAIN n THEN n.label ELSE n.type
  IN IF n.type = "exit" THEN "You have reached " \o label \o ". Exit the building now."
     ELSE IF n.type = "refuge" THEN "You have reached the refuge area. Help is on the way."
     ELSE "You have arrived at " \o label \o "."

\* for a path with `least` nodes or more, the last step is the only one of
\* type arrive, and in the voice variant it is the step of the final node
\* with the phrase of its type
ArrivesFrom(least) ==
  (Synthesized /\ Len(path) >= least) =>
     /\ Len(result) >= 1
     /\ result[Len(result)].type = "arrive"
     /\ \A j \in 1..(Len(result) - 1) : result[j].type # "arrive"
     /\ op = "generateVoiceDirections" =>
           /\ result[Len(result)].nodeId = path[Len(path)]
           /\ result[Len(result)].text = ArrivalPhrase(NodeOf(path[Len(path)]))

\* C15 as stated: for every path of at least one valid node the last step
\* has type arrive, no earlier step has, and the voice variant phrases it by
\* the type of the final node.
C15_ArriveFromOneNode == ArrivesFrom(1)

\* C15, amended: the same for every path of at least two valid nodes.
C15_ArriveLast == ArrivesFrom(2)

\* a path of three nodes that ends at an exit
C15_Witness ==
  /\ op = "generateVoiceDirections"
  /\ path = << "NODE_A", "NODE_LIFT", "NODE_EXIT_A" >>
  /\ Len(result) = 3
  /\ result[3].text = "You have reached Exit A. Exit the building now."

\* C16: for every path of at least two valid nodes the instruction that
\* generateDirections produces for the first hop is 'Head <direction> --
\* <distance>m', with direction east or west when |dx| > |dy| (east if
\* dx > 0), north or south otherwise (north if dy > 0), and distance the
\* length of the hop rounded to whole metres.
C16_HeadingFirstHop ==
  (op = "generateDirections" /\ Len(path) >= 2) =>
     LET a   == NodeOf(path[1])
         b   == NodeOf(path[2])
         dx  == b.x - a.x
         dy  == b.y - a.y
         adx == IF dx < 0 THEN 0 - dx ELSE dx
         ady == IF dy < 0 THEN 0 - dy ELSE dy
         dir == IF adx > ady
                THEN (IF dx > 0 THEN "east" ELSE "west")
                ELSE (IF dy > 0 THEN "north" ELSE "south")
         len == (EuclidDist(a, b) + 50) \div 100
     IN /\ Len(result) >= 1
        /\ result[1].text = "Head " \o dir \o " -- " \o ToString(len) \o "m"

\* C17: for a path of n >= 2 valid ids generateDirections returns n - 1
\* steps and generateVoiceDirections n steps, the first of type start and
\* the k-th with the k-th id of the path as nodeId; for a path of fewer than
\* two ids both return the empty list.
C17_StepCount ==
  /\ (Synthesized /\ Len(path) < 2) => result = << >>
  /\ (op = "generateDirections" /\ Len(path) >= 2) => Len(result) = Len(path) - 1
  /\ (op = "generateVoiceDirections" /\ Len(path) >= 2) =>
        /\ Len(result) = Len(path)
        /\ result[1].type = "start"
        /\ \A k \in 1..Len(path) : result[k].nodeId = path[k]

\* a path that turns back on itself: a step for each of its three ids
C17_Witness ==
  /\ op = "generateVoiceDirections"
  /\ path = << "NODE_LIFT", "NODE_A", "NODE_LIFT" >>
  /\ CrossAt(2) = 0 /\ DotAt(2) < 0
  /\ Len(result) = 3
  /\ result[2].type = "straight"

\* the number of entries of the adjacency list l for node v
Entries(l, v) == Cardinality({ k \in 1..Len(l) : l[k].node = v })

\* the adjacency list that the call of dijkstra in this state builds
AdjOfCall == BuildAdj(nodes, edges, wheelchairMode, blockedEdges)

\* C19: the adjacency list built inside dijkstra has a list for every node
\* of the node set and is symmetric: adj[u] has as many entries for v as
\* adj[v] has for u, each with the length of the hop as weight; for u # v
\* that number is the number of edges joining u and v that are not blocked,
\* are accessible in wheelchair mode and have both endpoints in the node
\* set, so an edge that names an unknown node adds no entry.
C19_AdjacencySymmetric ==
  op = "dijkstra" =>
     LET adj    == AdjOfCall
         ids    == NodeIds(nodes)
         usable == { i \in 1..Len(edges) : Usable(edges[i]) }
     IN /\ DOMAIN adj = ids
        /\ \A u \in ids :
              \A k \in 1..Len(adj[u]) :
                 /\ adj[u][k].node \in ids
                 /\ adj[u][k].dist = HopLen(u, adj[u][k].node)
        /\ \A u, v \in ids :
              /\ Entries(adj[u], v) = Entries(adj[v], u)
              /\ u # v =>
                    Entries(adj[u], v) =
                       Cardinality({ i \in usable : Joins(edges[i], u, v) })

\* the edge list has the two parallel edges n1-n3 and n3-n1 and an edge to
\* the unknown node n6: two entries each way between n1 and n3, none for n6
C19_Witness ==
  /\ op = "dijkstra" /\ ~wheelchairMode /\ blockedEdges = << >>
  /\ \E i \in 1..Len(edges) : edges[i].to = "n6" /\ "n6" \notin NodeIds(nodes)
  /\ Entries(AdjOfCall["n1"], "n3") = 2
  /\ Entries(AdjOfCall["n3"], "n1") = 2
  /\ AdjOfCall["n1"][1].dist = 300 /\ AdjOfCall["n1"][2].dist = 500
  /\ \A k \in 1..Len(AdjOfCall["n5"]) : AdjOfCall["n5"][k].node # "n6"

\* C20: in wheelchair mode no path of two or more nodes returned by
\* dijkstra or findNearestExit contains a node whose accessible flag is
\* false.
C20_AccessibleNodes ==
  (Queried /\ wheelchairMode /\ result # Null /\ Len(result.path) >= 2) =>
     \A k \in 1..Len(result.path) : NodeOf(result.path[k]).accessible

\* C21: in the shipped building the node ids are pairwise distinct, both
\* endpoints of every edge are ids of nodes, every edge of type stairs has
\* accessible = FALSE, and every node type is one of exit, elevator, stairs,
\* refuge, ramp, intersection, door.
C21_DataInvariants ==
  /\ \A i, j \in 1..Len(nodes) : i # j => nodes[i].id # nodes[j].id
  /\ \A i \in 1..Len(edges) :
        /\ edges[i].from \in NodeIds(nodes)
        /\ edges[i].to \in NodeIds(nodes)
        /\ edges[i].type = "stairs" => ~edges[i].accessible
  /\ \A i \in 1..Len(nodes) :
        nodes[i].type \in {"exit", "elevator", "stairs", "refuge", "ramp",
                           "intersection", "door"}

\* the shipped building with its 43 nodes and 47 edges, two of them stairs
C21_Witness ==
  /\ Len(nodes) = 43 /\ Len(edges) = 47
  /\ Cardinality({ i \in 1..Len(edges) : edges[i].type = "stairs" }) = 2
  /\ op = "findNearestExit"

\* C22: for any two strings as startId and endId, ids of the node list or
\* not, dijkstra returns null or a path that begins with startId and ends
\* with endId together with a finite distance, and it returns null whenever
\* endId cannot be reached from startId.
C22_AnyIds ==
  op = "dijkstra" =>
     /\ \/ result = Null
        \/ /\ Len(result.path) >= 1
           /\ result.path[1] = startId
           /\ result.path[Len(result.path)] = endId
           /\ result.distance \in 0..(Infinity - 1)
     /\ ~Reachable(startId, endId) => result = Null

\* what the core returns for the parameters the component holds: the result
\* of findNearestExit in emergency mode with a start, the result of
\* dijkstra without emergency with a start and an end, and otherwise nothing
CoreResult ==
  IF emergencyMode /\ selectedStart # NullId
  THEN [asked |-> TRUE,
        r     |-> ExitResults[wheelchairMode][blockedEdges][selectedStart]]
  ELSE IF ~emergencyMode /\ selectedStart # NullId /\ selectedEnd # NullId
  THEN [asked |-> TRUE,
        r     |-> PairResults[wheelchairMode][blockedEdges][selectedStart][selectedEnd]]
  ELSE [asked |-> FALSE, r |-> Null]

\* C23: in navigate mode, when no run of the compute-path effect is due,
\* currentPath and pathInfo show the result of the core for the current
\* parameters: the path and the distance of the route, or an error when the
\* core returns null, and no route when the core is not asked.
C23_DisplayedIsCurrent ==
  (component \in {"MapView", "MapView3D"} /\ mode = "navigate" /\ ~effectDue) =>
     IF ~CoreResult.asked THEN currentPath = Null
     ELSE IF CoreResult.r = Null
     THEN /\ currentPath = Null
          /\ pathInfo # Null
          /\ "error" \in DOMAIN pathInfo
          /\ emergencyMode => pathInfo.error = "No safe path available!"
     ELSE /\ currentPath = PathValue(CoreResult.r.path)
          /\ pathInfo # Null
          /\ "distance" \in DOMAIN pathInfo
          /\ pathInfo.distance = ToFixed1(CoreResult.r.distance)

\* following prev from v reaches startId within n steps
RECURSIVE ChainEnds(_, _)
ChainEnds(v, n) ==
  IF v = startId THEN TRUE
  ELSE IF n = 0 \/ v \notin DOMAIN loop.prev.val THEN FALSE
  ELSE ChainEnds(loop.prev.val[v], n - 1)

\* C24: in the loop of dijkstra the distance of the node selected in an
\* iteration is at least the distance of every node selected before it, the
\* dist and prev entries of a node in visited do not change any more, and
\* the distance of the selected node is the least weight of a path from
\* startId to it in the filtered graph.
C24_SettledOrder ==
  [][ op = "loop" =>
        LET minNode == SelectMin(loop)
        IN /\ minNode # NullId =>
                /\ \A v \in loop.visited : loop.dist.val[v] <= loop.dist.val[minNode]
                /\ loop.dist.val[minNode] = MinPathWeight(startId, minNode)
           /\ \A v \in loop'.visited :
                /\ loop'.dist.val[v] = loop.dist.val[v]
                /\ GetId(loop'.prev, v) = GetId(loop.prev, v) ]_vars

\* three nodes are settled, two of them at the same distance, and a fourth
\* is about to be selected
C24_Witness ==
  /\ op = "loop"
  /\ Cardinality(loop.visited) = 3
  /\ SelectMin(loop) # NullId
  /\ \E u, v \in loop.visited : u # v /\ loop.dist.val[u] = loop.dist.val[v]
  /\ \E v \in loop.visited : GetId(loop.prev, v) # NullId

\* C25: with edges of length 0, duplicate and parallel edges and an edge from
\* a node to itself, every iteration of the loop of dijkstra either stops it
\* or adds a node to visited that was not in it, every chain of prev entries
\* ends at startId without a cycle, a returned path repeats no node and
\* begins at startId, and a call of dijkstra returns.
C25_Terminates ==
  /\ [][ op = "loop" =>
           \/ op' = "dijkstra"
           \/ \E m \in NodeIds(nodes) \ loop.visited :
                 loop'.visited = loop.visited \cup {m} ]_vars
  /\ [](op = "loop" =>
           \A v \in DOMAIN loop.prev.val : ChainEnds(v, Len(nodes)))
  /\ []((op = "dijkstra" /\ result # Null) =>
           /\ result.path[1] = startId
           /\ \A i, j \in 1..Len(result.path) :
                 i # j => result.path[i] # result.path[j])
  /\ (op = "loop") ~> (op = "dijkstra")

\* a call returned a path over the edge of length 0 while the edge from g2
\* to itself and both edges from g1 to g3 were in the edge list
C25_Witness ==
  /\ op = "dijkstra"
  /\ result # Null
  /\ Len(result.path) >= 3
  /\ HasHop(result.path, "g1", "g2")
  /\ \E i \in 1..Len(edges) : edges[i].from = "g2" /\ edges[i].to = "g2"
  /\ \E i, j \in 1..Len(edges) : i # j /\ edges[i] = edges[j]
  /\ Cardinality(loop.visited) >= 2

\* C26: blockedEdges is non-empty exactly when emergencyMode is true;
\* simulateFire sets both and changes neither selectedStart nor selectedEnd;
\* only clearAll empties blockedEdges or leaves emergency mode, and it also
\* resets selectedStart, selectedEnd, currentPath, pathInfo and directions;
\* the effect asks dijkstra for a route without emergency only while
\* blockedEdges is empty.
C26_FireLifecycle ==
  /\ []((blockedEdges # << >>) <=> emergencyMode)
  /\ [][ event'.name = "simulateFire" =>
           /\ blockedEdges' # << >>
           /\ emergencyMode'
           /\ selectedStart' = selectedStart
           /\ selectedEnd' = selectedEnd ]_vars
  /\ [][ ((blockedEdges # << >> /\ blockedEdges' = << >>) \/ (emergencyMode /\ ~emergencyMode'))
           => event'.name = "clearAll" ]_vars
  /\ [][ event'.name = "clearAll" =>
           /\ selectedStart' = NullId
           /\ selectedEnd' = NullId
           /\ currentPath' = Null
           /\ pathInfo' = Null
           /\ directions' = << >> ]_vars
  /\ []((effectDue /\ mode = "navigate" /\ ~emergencyMode /\ selectedStart # NullId
         /\ selectedEnd # NullId) => blockedEdges = << >>)

\* simulateFire has just run on a component that holds a start and an end
C26_Witness ==
  /\ event.name = "simulateFire"
  /\ emergencyMode
  /\ blockedEdges = FireBlockedEdges
  /\ selectedStart # NullId
  /\ selectedEnd # NullId
  /\ currentPath # Null

\* C27: a selected end comes with a selected start that differs from it; a
\* click in emergency mode sets no end; a click in view mode changes neither
\* selectedStart nor selectedEnd.
C27_Selection ==
  /\ [](selectedEnd # NullId => (selectedStart # NullId /\ selectedEnd # selectedStart))
  /\ [][ (event'.name = "click" /\ emergencyMode) => selectedEnd' \in {selectedEnd, NullId} ]_vars
  /\ [][ (event'.name = "click" /\ mode = "view") =>
           (selectedStart' = selectedStart /\ selectedEnd' = selectedEnd) ]_vars

\* a click in emergency mode on a node other than the start has just made
\* that node the start, and no end is selected
C27_Witness ==
  /\ event.name = "click"
  /\ mode = "navigate"
  /\ emergencyMode
  /\ selectedStart # NullId
  /\ selectedEnd = NullId
  /\ currentPath = Null
  /\ effectDue

\* C28: in MapView3D currentStep is at least 0 and at most
\* max(0, directions.length - 1); handleNextStep at the last step and
\* handlePrevStep at step 0 change neither currentStep nor directions; a
\* step that changes directions sets currentStep to 0.
C28_StepInRange ==
  /\ [](component = "MapView3D" =>
          /\ currentStep >= 0
          /\ currentStep <= (IF Len(directions) >= 1 THEN Len(directions) - 1 ELSE 0))
  /\ [][ ((event'.name = "next" /\ ~CanStepNext) \/ (event'.name = "prev" /\ ~CanStepPrev))
           => (currentStep' = currentStep /\ directions' = directions) ]_vars
  /\ [][ directions' # directions => currentStep' = 0 ]_vars

\* handleNextStep has just moved to the last of at least three directions
C28_Witness ==
  /\ component = "MapView3D"
  /\ event.name = "next"
  /\ Len(event.out) >= 1
  /\ Len(directions) >= 3
  /\ currentStep = Len(directions) - 1

\* C29: a callback of setTimeout that speaks or vibrates a direction does so
\* only while the route it was scheduled for is the current one.
C29_NoStaleAnnouncement ==
  \A k \in 1..Len(event.out) :
     (event.out[k].delayed /\ event.out[k].direction) => event.out[k].route = currentPath

\* C30: from a call of the callback of onAuthStateChanged without a user
\* until its next call with a user, currentUser and userProfile are null and
\* currentPage is neither main nor settings; and whenever currentPage is
\* main or settings, currentUser is not null.
C30_SignedOutStaysOut ==
  /\ authState = "out" =>
        /\ currentUser = NullId
        /\ userProfile = Null
        /\ currentPage \notin {"main", "settings"}
  /\ currentPage \in {"main", "settings"} => currentUser # NullId

=============================================================================
